---------------------------- MODULE Spec2Model ----------------------------
(***************************************************************************)
(* A model of the MAKER decomposition-and-voting pipeline:                 *)
(*   ResponseValidator  (src/.../makerCLI.js, lines 464-869)               *)
(*   CodeClusterer      (src/.../maker/CodeClusterer.js)                   *)
(*   VotingManager      (src/unnamed/part_000, lines 18-349)               *)
(*   TaskDecomposer     (src/unnamed/part_000, lines 366-788)              *)
(*                                                                         *)
(* A response text is modelled by what the validator's regular             *)
(* expressions, the token counter and the acorn parser read from it (the   *)
(* record Text below); the parser and the tokenizer themselves are         *)
(* external libraries.  IEEE doubles are modelled by exact rationals       *)
(* <<num, den>> plus the value NaN (the only non-finite value the code     *)
(* can produce, by 0/0 in _classSimilarity).                               *)
(***************************************************************************)
EXTENDS Integers, Sequences, FiniteSets, TLC

VARIABLES
    \* ---- ResponseValidator.validate, one call
    vpc,          \* "ready" | "done" | "off"
    code,         \* the text handed to validate
    task,         \* the task metadata handed to validate
    options,      \* the options handed to validate
    validation,   \* what validate returned
    \* ---- VotingManager.calculateOptimalK, successive calls
    kpc,          \* "ready" | "done" | "off"
    problemSteps, \* the argument problemSteps
    baseRel,      \* the argument baseReliability, in RelDen-ths
    optimalK,     \* the value returned for problemSteps
    prevK,        \* the value returned for problemSteps - 1 (0: none yet)
    \* ---- TaskDecomposer.decompose, one call
    dpc,          \* "ready" | "awaitAI" | "done" | "off"
    description,  \* what the rule-based splitter read from the task description
    useAI,        \* options.useAI !== false
    aiResponse,   \* the provider's answer: [outcome, lines]
    plan,         \* the plan decompose returned
    \* ---- CodeClusterer.cluster, one call
    cpc,          \* "ready" | "done" | "off"
    responses,    \* the argument responses
    similarityThreshold, \* the argument similarityThreshold
    clusters,     \* what cluster returned
    \* ---- VotingManager.vote, one call
    votepc,       \* "ready" | "generating" | "done" | "failed" | "off"
    provider,     \* per request, the texts the language model may answer with
    voteTask,     \* the argument task
    voteOptions,  \* the argument options: k and maxCandidates (0: not given)
    requested,    \* the loop counter i of generateCandidates
    requests,     \* how each complete() call issued so far ended
    candidates,   \* the candidates generateCandidates collected
    validCandidates, \* the candidates that passed red-flagging
    voteResult,   \* what vote returned
    \* ---- MicroagentExecutor.executeTask, one call
    xpc,          \* "ready" | "voting" | "done" | "aborted" | "off"
    currentPlan,  \* this.currentPlan: subtasks and executionOrder
    execOptions,  \* the argument options: requireHighConfidence, stopOnError
    pos,          \* the position of the for loop in executionOrder
    minimalContext, \* the context built for the subtask being voted on
    attempted,    \* the task ids whose try block was entered, in order
    voteOutcomes, \* how the voting round of each finished attempt ended
    executionLog, \* this.executionLog
    results,      \* the local results of executeTask
    completedSubtasks, \* context.completedSubtasks, filled by _applyResult
    execError,    \* the error executeTask rejected with ("none": none)
    context,      \* the context argument of executeTask: its relevantFiles
    calls,        \* overlapping executeTask calls on one executor: each call's locals
    brackets,     \* the characters of the text under validation, brackets kept apart
    jpc,          \* _jaccardSimilarity: "off", "ready", "done"
    tokensA,      \* its first argument
    tokensB,      \* its second argument
    jaccard,      \* the value it returned
    tpc,          \* the target-file step of _buildMinimalContext: "off", "ready", "done"
    encoding,     \* TokenCounter.encoding: TRUE when the tiktoken encoder was loaded
    fileContent,  \* the content read from the subtask's target file
    targetFile,   \* minimalContext.targetFile
    wpc,          \* _topologicalSort then _estimateComplexity, call by call:
                  \* "off", "sorting", "measuring", "done"
    walkSubtasks, \* the normalized subtasks they run on
    sortRun,      \* _topologicalSort: visited, order, the pending visit calls
    depthRun      \* _estimateComplexity: maxDepth, the pending calculateDepth calls

valVars == <<vpc, code, task, options, validation>>
kVars == <<kpc, problemSteps, baseRel, optimalK, prevK>>
decVars == <<dpc, description, useAI, aiResponse, plan>>
cluVars == <<cpc, responses, similarityThreshold, clusters>>
voteVars == <<votepc, provider, voteTask, voteOptions, requested, requests, candidates,
              validCandidates, voteResult>>
execVars == <<xpc, currentPlan, execOptions, pos, minimalContext, attempted,
              voteOutcomes, executionLog, results, completedSubtasks, execError,
              context, calls>>
unitVars == <<brackets, jpc, tokensA, tokensB, jaccard, tpc, encoding, fileContent,
              targetFile, wpc, walkSubtasks, sortRun, depthRun>>
walkVars == <<wpc, walkSubtasks, sortRun, depthRun>>
vars == <<valVars, kVars, decVars, cluVars, voteVars, execVars, unitVars>>

None == "none"

(***************************************************************************)
(* Doubles as rationals.  <<n, d>> with d > 0 is n/d in lowest terms;      *)
(* <<0, 0>> is NaN.  Every number the modelled code computes is >= 0.      *)
(***************************************************************************)
NaN == <<0, 0>>

IsNaN(r) == r[2] = 0

RECURSIVE Gcd(_, _)
Gcd(a, b) == IF b = 0 THEN a ELSE Gcd(b, a % b)

Rat(n, d) ==
    IF d = 0 THEN NaN
    ELSE LET g == Gcd(n, d) IN IF g = 0 THEN <<0, 1>> ELSE <<n \div g, d \div g>>

RInt(n) == <<n, 1>>

\* a / b in JavaScript for a, b >= 0 finite and not (a > 0, b = 0)
RDiv(a, b) ==
    IF IsNaN(a) \/ IsNaN(b) THEN NaN ELSE Rat(a[1] * b[2], a[2] * b[1])

RAdd(a, b) ==
    IF IsNaN(a) \/ IsNaN(b) THEN NaN ELSE Rat(a[1] * b[2] + b[1] * a[2], a[2] * b[2])

RMul(a, b) ==
    IF IsNaN(a) \/ IsNaN(b) THEN NaN ELSE Rat(a[1] * b[1], a[2] * b[2])

\* a >= b, a > b: false as soon as one side is NaN
RGe(a, b) == ~IsNaN(a) /\ ~IsNaN(b) /\ a[1] * b[2] >= b[1] * a[2]

RGt(a, b) == ~IsNaN(a) /\ ~IsNaN(b) /\ a[1] * b[2] > b[1] * a[2]

\* Math.max, Math.min: NaN as soon as one argument is NaN
RMax(a, b) == IF IsNaN(a) \/ IsNaN(b) THEN NaN ELSE IF RGe(a, b) THEN a ELSE b

RMin(a, b) == IF IsNaN(a) \/ IsNaN(b) THEN NaN ELSE IF RGe(a, b) THEN b ELSE a

Min(a, b) == IF a <= b THEN a ELSE b

Max(a, b) == IF a >= b THEN a ELSE b

\* a set of integers in ascending order: Object.keys over integer keys, a
\* for loop over indices
RECURSIVE Ascending(_)
Ascending(S) ==
    IF S = {} THEN <<>>
    ELSE LET m == CHOOSE x \in S : \A y \in S : x <= y
         IN  <<m>> \o Ascending(S \ {m})

RECURSIVE RSum(_)
RSum(s) == IF s = <<>> THEN RInt(0) ELSE RAdd(s[1], RSum(Tail(s)))

(***************************************************************************)
(* Texts.  A text is the record of what the code reads from it:            *)
(*   blank      !code || code.trim().length === 0                          *)
(*   halluc     how many of the 7 hallucination patterns match             *)
(*   incompl    how many of the 4 incompleteness patterns match            *)
(*   balanced   the outcome of the bracket scan                            *)
(*   ntokens    tokenCounter.countTokens(code)                             *)
(*   likeCode   _looksLikeCode(code)                                       *)
(*   module     acorn parses it with sourceType 'module'                   *)
(*   script     acorn parses it with sourceType 'script'                   *)
(*   markers    the expected-format markers _checkFormat finds in it       *)
(*   functions, classes, imports, exports, variables, tokens               *)
(*              what extractFeatures collects (tokens: the identifier and  *)
(*              string tokens of a parsed text, the raw tokens otherwise)  *)
(***************************************************************************)
NumHallucinationPatterns == 7
NumIncompletenessPatterns == 4

BaseText ==
    [blank |-> FALSE, halluc |-> 0, incompl |-> 0, balanced |-> TRUE,
     ntokens |-> 20, likeCode |-> FALSE, module |-> TRUE, script |-> TRUE,
     markers |-> {}, functions |-> <<>>, classes |-> <<>>, imports |-> <<>>,
     exports |-> 0, variables |-> 0, tokens |-> {}]

BlankText == [BaseText EXCEPT !.blank = TRUE, !.ntokens = 1]

(***************************************************************************)
(* ResponseValidator                                                       *)
(***************************************************************************)
Flag(type, severity) == [type |-> type, severity |-> severity]

Repeat(x, n) == [i \in 1..n |-> x]

\* _checkHallucinations: one critical flag per matching pattern
CheckHallucinations(c) ==
    Repeat(Flag("hallucination_marker", "critical"), c.halluc)

\* _checkBalancedBrackets, as read from the text
CheckBalancedBrackets(c) == c.balanced

\* _checkCompleteness: one high flag per matching pattern, one for the brackets
CheckCompleteness(c) ==
    Repeat(Flag("incomplete_response", "high"), c.incompl)
    \o (IF ~CheckBalancedBrackets(c)
        THEN <<Flag("unbalanced_brackets", "high")>> ELSE <<>>)

DefaultMaxTokens == 1500
DefaultMinTokens == 5
DefaultExpectedTokens == 200
Tolerance == 2

\* x || d for a number x (0 is falsy)
OrDefault(x, d) == IF x = 0 THEN d ELSE x

\* _checkLength
CheckLength(c, t, o) ==
    LET tokenCount == c.ntokens
        maxTokens == OrDefault(o.maxTokens, DefaultMaxTokens)
        minTokens == OrDefault(o.minTokens, DefaultMinTokens)
        expectedTokens == OrDefault(t.expectedLength, DefaultExpectedTokens)
    IN  (IF tokenCount > maxTokens
         THEN <<Flag("too_verbose", "high")>>
         ELSE IF tokenCount > expectedTokens * Tolerance
              THEN <<Flag("possibly_verbose", "medium")>>
              ELSE <<>>)
        \o (IF tokenCount < minTokens THEN <<Flag("too_short", "high")>> ELSE <<>>)

\* _validateSyntax: module first, then script; critical when both fail
ValidateSyntax(c) ==
    IF c.module \/ c.script THEN <<>> ELSE <<Flag("syntax_error", "critical")>>

\* _looksLikeCode
LooksLikeCode(c) == c.likeCode

FormatKinds == {"function", "class", "import", "export"}

\* _checkFormat: a high flag when the expected marker is absent; any other
\* expectedFormat (e.g. 'expression') falls through the switch
CheckFormat(c, expectedFormat) ==
    IF expectedFormat \in FormatKinds /\ expectedFormat \notin c.markers
    THEN <<Flag("format_mismatch", "high")>> ELSE <<>>

PenaltyCritical == 100
PenaltyHigh == 30
PenaltyMedium == 10
PenaltyLow == 5
FullConfidence == 100

\* the deduction with a critical flag costing less than the whole score
PenaltyCriticalShort(f) ==
    CASE f.severity = "critical" -> PenaltyCritical - PenaltyHigh
      [] f.severity = "high" -> PenaltyHigh
      [] f.severity = "medium" -> PenaltyMedium
      [] f.severity = "low" -> PenaltyLow
      [] OTHER -> 0

Penalty(f) ==
    CASE f.severity = "critical" -> PenaltyCritical
      [] f.severity = "high" -> PenaltyHigh
      [] f.severity = "medium" -> PenaltyMedium
      [] f.severity = "low" -> PenaltyLow
      [] OTHER -> 0

RECURSIVE SumPenalty(_)
SumPenalty(flags) ==
    IF flags = <<>> THEN 0 ELSE Penalty(flags[1]) + SumPenalty(Tail(flags))

\* ResponseValidator._calculateConfidence, in hundredths
ValidatorConfidence(flags) ==
    IF Len(flags) = 0 THEN FullConfidence
    ELSE Max(0, FullConfidence - SumPenalty(flags))

HasCritical(flags) == \E i \in 1..Len(flags) : flags[i].severity = "critical"

\* validate without the early return of the empty-text branch
ValidateNoEarlyReturn(c, t, o) ==
    LET flags ==
            (IF c.blank THEN <<Flag("empty_response", "critical")>> ELSE <<>>)
            \o CheckHallucinations(c)
            \o CheckCompleteness(c)
            \o CheckLength(c, t, o)
            \o (IF t.type = "code" \/ LooksLikeCode(c) THEN ValidateSyntax(c) ELSE <<>>)
            \o (IF t.expectedFormat # None THEN CheckFormat(c, t.expectedFormat) ELSE <<>>)
    IN  [valid |-> ~HasCritical(flags), flags |-> flags,
         confidence |-> ValidatorConfidence(flags)]

\* validate deciding validity by the confidence instead of the critical flags
ValidateByConfidence(c, t, o) ==
    LET flags ==
            CheckHallucinations(c)
            \o CheckCompleteness(c)
            \o CheckLength(c, t, o)
            \o (IF t.type = "code" \/ LooksLikeCode(c) THEN ValidateSyntax(c) ELSE <<>>)
            \o (IF t.expectedFormat # None THEN CheckFormat(c, t.expectedFormat) ELSE <<>>)
    IN  IF c.blank
        THEN [valid |-> FALSE, flags |-> <<Flag("empty_response", "critical")>>,
              confidence |-> 0]
        ELSE [valid |-> ValidatorConfidence(flags) > 0, flags |-> flags,
              confidence |-> ValidatorConfidence(flags)]

\* ResponseValidator.validate
Validate(c, t, o) ==
    IF c.blank
    THEN [valid |-> FALSE, flags |-> <<Flag("empty_response", "critical")>>,
          confidence |-> 0]
    ELSE
      LET flags ==
              CheckHallucinations(c)
              \o CheckCompleteness(c)
              \o CheckLength(c, t, o)
              \o (IF t.type = "code" \/ LooksLikeCode(c) THEN ValidateSyntax(c) ELSE <<>>)
              \o (IF t.expectedFormat # None THEN CheckFormat(c, t.expectedFormat) ELSE <<>>)
      IN  [valid |-> ~HasCritical(flags), flags |-> flags,
           confidence |-> ValidatorConfidence(flags)]

NoOptions == [maxTokens |-> 0, minTokens |-> 0]


(***************************************************************************)
(* CodeClusterer                                                           *)
(***************************************************************************)
\* extractFeatures: nothing but the raw tokens when the module parse fails
ExtractFeatures(c) ==
    [syntaxValid |-> c.module,
     functions |-> IF c.module THEN c.functions ELSE <<>>,
     classes |-> IF c.module THEN c.classes ELSE <<>>,
     imports |-> IF c.module THEN c.imports ELSE <<>>,
     tokens |-> c.tokens,
     structure |-> IF c.module
                   THEN <<Len(c.functions), Len(c.classes), Len(c.imports),
                          c.exports, c.variables>>
                   ELSE <<0, 0, 0, 0, 0>>]

\* _jaccardSimilarity
\* the intersection taken over the first set only
JaccardOverFirst(set1, set2) ==
    IF Cardinality(set1) = 0 /\ Cardinality(set2) = 0 THEN RInt(1)
    ELSE RDiv(RInt(Cardinality(set1 \cap set2)), RInt(Cardinality(set1)))

JaccardSimilarity(set1, set2) ==
    IF Cardinality(set1) = 0 /\ Cardinality(set2) = 0 THEN RInt(1)
    ELSE RDiv(RInt(Cardinality(set1 \cap set2)), RInt(Cardinality(set1 \cup set2)))

\* _structuralSimilarity, over the five counts
StructuralSimilarity(s1, s2) ==
    LET term(key) ==
            IF s1[key] = 0 /\ s2[key] = 0 THEN RInt(1)
            ELSE RDiv(RInt(Min(s1[key], s2[key])), RInt(Max(s1[key], s2[key])))
    IN  RDiv(RSum([key \in 1..Len(s1) |-> term(key)]), RInt(Len(s1)))

\* the index of the first function of funcs2, not in used, with the signature of f
FirstMatch(f, funcs2, used) ==
    LET hits == {i \in 1..Len(funcs2) :
                    /\ i \notin used
                    /\ f.params = funcs2[i].params
                    /\ f.async = funcs2[i].async}
    IN  IF hits = {} THEN 0 ELSE CHOOSE i \in hits : \A j \in hits : i <= j

\* the greedy one-to-one matching of _functionSimilarity
RECURSIVE CountMatches(_, _, _)
CountMatches(funcs1, funcs2, used) ==
    IF funcs1 = <<>> THEN 0
    ELSE LET i == FirstMatch(funcs1[1], funcs2, used)
         IN  IF i = 0 THEN CountMatches(Tail(funcs1), funcs2, used)
             ELSE 1 + CountMatches(Tail(funcs1), funcs2, used \cup {i})

\* _functionSimilarity comparing how many functions there are, not their signatures
FunctionSimilarityByCount(funcs1, funcs2) ==
    IF Len(funcs1) = 0 /\ Len(funcs2) = 0 THEN RInt(1)
    ELSE IF Len(funcs1) = 0 \/ Len(funcs2) = 0 THEN RInt(0)
    ELSE RDiv(RInt(Min(Len(funcs1), Len(funcs2))),
              RInt(Max(Len(funcs1), Len(funcs2))))

\* _functionSimilarity
FunctionSimilarity(funcs1, funcs2) ==
    IF Len(funcs1) = 0 /\ Len(funcs2) = 0 THEN RInt(1)
    ELSE IF Len(funcs1) = 0 \/ Len(funcs2) = 0 THEN RInt(0)
    ELSE RDiv(RInt(CountMatches(funcs1, funcs2, {})),
              RInt(Max(Len(funcs1), Len(funcs2))))

\* the double loop of _classSimilarity: similarity = Math.max(similarity, methodSim)
RECURSIVE BestMethodSim(_, _, _)
BestMethodSim(pairs, classes1, classes2) ==
    IF pairs = <<>> THEN RInt(0)
    ELSE LET c1 == classes1[pairs[Len(pairs)][1]]
             c2 == classes2[pairs[Len(pairs)][2]]
             methodSim == RDiv(RInt(Min(c1, c2)), RInt(Max(c1, c2)))
         IN  RMax(BestMethodSim(SubSeq(pairs, 1, Len(pairs) - 1), classes1, classes2),
                  methodSim)

\* the pairs (i, j) in the order of the double loop
ClassPairs(n1, n2) == [p \in 1..(n1 * n2) |-> <<((p - 1) \div n2) + 1, ((p - 1) % n2) + 1>>]

\* _classSimilarity
ClassSimilarity(classes1, classes2) ==
    IF Len(classes1) = 0 /\ Len(classes2) = 0 THEN RInt(1)
    ELSE IF Len(classes1) = 0 \/ Len(classes2) = 0 THEN RInt(0)
    ELSE RDiv(BestMethodSim(ClassPairs(Len(classes1), Len(classes2)), classes1, classes2),
              RInt(Max(Len(classes1), Len(classes2))))

\* _importSimilarity
ImportSimilarity(imports1, imports2) ==
    IF Len(imports1) = 0 /\ Len(imports2) = 0 THEN RInt(1)
    ELSE IF Len(imports1) = 0 \/ Len(imports2) = 0 THEN RInt(0)
    ELSE JaccardSimilarity({imports1[i] : i \in 1..Len(imports1)},
                           {imports2[i] : i \in 1..Len(imports2)})

WeightStructure == Rat(3, 10)
WeightFunctions == Rat(25, 100)
WeightTokens == Rat(2, 10)
WeightClasses == Rat(15, 100)
WeightImports == Rat(1, 10)

\* _compareFeaturesEnhanced
CompareFeaturesEnhanced(f1, f2) ==
    IF ~f1.syntaxValid /\ ~f2.syntaxValid
    THEN JaccardSimilarity(f1.tokens, f2.tokens)
    ELSE IF f1.syntaxValid # f2.syntaxValid
    THEN RMul(Rat(1, 10), JaccardSimilarity(f1.tokens, f2.tokens))
    ELSE RSum(<<RMul(WeightStructure, StructuralSimilarity(f1.structure, f2.structure)),
                RMul(WeightFunctions, FunctionSimilarity(f1.functions, f2.functions)),
                RMul(WeightTokens, JaccardSimilarity(f1.tokens, f2.tokens)),
                RMul(WeightClasses, ClassSimilarity(f1.classes, f2.classes)),
                RMul(WeightImports, ImportSimilarity(f1.imports, f2.imports))>>)

\* _buildSimilarityMatrix: 1.0 on the diagonal, one comparison per pair i < j
BuildSimilarityMatrix(features) ==
    [i \in 1..Len(features) |->
        [j \in 1..Len(features) |->
            IF i = j THEN RInt(1)
            ELSE CompareFeaturesEnhanced(features[Min(i, j)], features[Max(i, j)])]]

(***************************************************************************)
(* Array.prototype.sort with the comparator (a, b) => key(b) - key(a): a   *)
(* stable sort by descending key.  A NaN difference counts as 0, so that   *)
(* NaN keys beside two different numbers make the comparator inconsistent  *)
(* and the resulting order implementation-defined: any permutation.        *)
(***************************************************************************)
RECURSIVE InsertByKey(_, _, _)
InsertByKey(sorted, i, key) ==
    IF sorted = <<>> THEN <<i>>
    ELSE IF RGt(key[i], key[sorted[1]]) THEN <<i>> \o sorted
    ELSE <<sorted[1]>> \o InsertByKey(Tail(sorted), i, key)

RECURSIVE StableDescFrom(_, _, _)
StableDescFrom(sorted, i, key) ==
    IF i > Len(key) THEN sorted
    ELSE StableDescFrom(InsertByKey(sorted, i, key), i + 1, key)

StableDescOrder(key) == StableDescFrom(<<>>, 1, key)

RECURSIVE OrderingsOf(_)
OrderingsOf(S) ==
    IF S = {} THEN {<<>>}
    ELSE UNION {{<<x>> \o p : p \in OrderingsOf(S \ {x})} : x \in S}

Orderings(n) == OrderingsOf(1..n)

ComparatorConsistent(key) ==
    \/ \A i \in 1..Len(key) : ~IsNaN(key[i])
    \/ Cardinality({key[i] : i \in {j \in 1..Len(key) : ~IsNaN(key[j])}}) <= 1

SortDescOrders(key) ==
    IF ComparatorConsistent(key) THEN {StableDescOrder(key)}
    ELSE Orderings(Len(key))

\* the members a new cluster absorbs, without the test for assigned items
AbsorbedIgnoringAssigned(n, row, assigned, threshold) ==
    {i \in 1..n : RGe(row[i], threshold)}

\* the items a new cluster absorbs: unassigned and similar enough to its
\* representative (assigned already holds the representative)
Absorbed(n, row, assigned, threshold) ==
    {i \in 1..n : i \notin assigned /\ RGe(row[i], threshold)}

\* the loop of _greedyCluster over the sorted candidates
RECURSIVE GrowClusters(_, _, _, _, _, _)
GrowClusters(codes, matrix, threshold, order, assigned, built) ==
    IF order = <<>> THEN built
    ELSE IF order[1] \in assigned
    THEN GrowClusters(codes, matrix, threshold, Tail(order), assigned, built)
    ELSE LET c == order[1]
             more == Ascending(Absorbed(Len(codes), matrix[c],
                                        assigned \cup {c}, threshold))
             members == <<[code |-> codes[c], index |-> c - 1, similarity |-> RInt(1)]>>
                        \o [m \in 1..Len(more) |->
                              [code |-> codes[more[m]], index |-> more[m] - 1,
                               similarity |-> matrix[c][more[m]]]]
             cluster == [representative |-> codes[c],
                         members |-> members,
                         size |-> Len(members),
                         avgSimilarity |->
                             RDiv(RSum([m \in 1..Len(members) |-> members[m].similarity]),
                                  RInt(Len(members)))]
         IN  GrowClusters(codes, matrix, threshold, Tail(order),
                          assigned \cup {c} \cup {more[m] : m \in 1..Len(more)},
                          Append(built, cluster))

\* clusters.sort((a, b) => b.size - a.size)
SortBySize(cl) ==
    LET order == StableDescOrder([i \in 1..Len(cl) |-> RInt(cl[i].size)])
    IN  [i \in 1..Len(cl) |-> cl[order[i]]]

\* _greedyCluster: every result the candidate sort allows
GreedyCluster(codes, matrix, threshold) ==
    LET n == Len(codes)
        avgSimilarity == [i \in 1..n |-> RDiv(RSum(matrix[i]), RInt(n))]
    IN  {SortBySize(GrowClusters(codes, matrix, threshold, order, {}, <<>>)) :
            order \in SortDescOrders(avgSimilarity)}

\* cluster(responses, similarityThreshold): every result it can return
Cluster(codes, threshold) ==
    IF Len(codes) = 0 THEN {<<>>}
    ELSE IF Len(codes) = 1
    THEN {<<[representative |-> codes[1],
             members |-> <<[code |-> codes[1], index |-> 0, similarity |-> RInt(1)]>>,
             size |-> 1,
             avgSimilarity |-> RInt(1)]>>}
    ELSE LET features == [i \in 1..Len(codes) |-> ExtractFeatures(codes[i])]
         IN  GreedyCluster(codes, BuildSimilarityMatrix(features), threshold)

(***************************************************************************)
(* One call of validate.  The inputs are drawn from bounded sets: every    *)
(* combination of what the checks read from a text, of the task fields     *)
(* and of the options they use.                                            *)
(***************************************************************************)
MaxFlagsPerKind == 2

TokenCounts == {1, 4, 5, 400, 401, 1500, 1501}

ValTexts ==
    {[BaseText EXCEPT !.blank = TRUE, !.ntokens = n] : n \in {0, 1, 5}}
    \cup
    {[BaseText EXCEPT !.halluc = h, !.incompl = i, !.balanced = b, !.ntokens = n,
                      !.likeCode = l, !.module = m, !.script = s, !.markers = mk] :
        h \in 0..Min(MaxFlagsPerKind, NumHallucinationPatterns),
        i \in 0..Min(MaxFlagsPerKind, NumIncompletenessPatterns),
        b \in BOOLEAN, n \in TokenCounts, l \in BOOLEAN,
        m \in BOOLEAN, s \in BOOLEAN, mk \in {{}, {"function"}}}

ValTasks ==
    [type : {"code", None}, expectedFormat : {None, "function", "expression"},
     expectedLength : {0, 100}]

ValOptions == {NoOptions, [maxTokens |-> 400, minTokens |-> 0]}

ValOff ==
    /\ vpc = "off"
    /\ code = BaseText
    /\ task = [type |-> None, expectedFormat |-> None, expectedLength |-> 0]
    /\ options = NoOptions
    /\ validation = None

ValInit ==
    /\ vpc = "ready"
    /\ code \in ValTexts
    /\ task \in ValTasks
    /\ options \in ValOptions
    /\ validation = None

\* validate(code, task, options) runs to its return
ValidateCall ==
    /\ vpc = "ready"
    /\ validation' = Validate(code, task, options)
    /\ vpc' = "done"
    /\ UNCHANGED <<code, task, options, kVars, decVars, cluVars, voteVars, execVars, unitVars>>

(***************************************************************************)
(* VotingManager.calculateOptimalK.  baseReliability is relNum / RelDen;   *)
(* Math.log2 and the product are taken in exact arithmetic.                *)
(***************************************************************************)
RelDen == 10
MaxSteps == 600
MinK == 2
MaxK == 10

\* Math.ceil(Math.log2(n)) for an integer n >= 1
RECURSIVE CeilLog2From(_, _, _)
CeilLog2From(n, b, pow) == IF pow >= n THEN b ELSE CeilLog2From(n, b + 1, 2 * pow)

CeilLog2(n) == CeilLog2From(n, 0, 1)

\* Math.ceil of a rational >= 0
RCeil(r) == (r[1] + r[2] - 1) \div r[2]

\* calculateOptimalK without the final clamp
CalculateOptimalKNoClamp(steps, relNum) ==
    LET baseK == CeilLog2(steps + 1)
        reliabilityFactor == RMax(RInt(1), RMul(RInt(2), Rat(RelDen - relNum, RelDen)))
    IN  RCeil(RMul(RInt(baseK), reliabilityFactor))

CalculateOptimalK(steps, relNum) ==
    LET baseK == CeilLog2(steps + 1)
        reliabilityFactor == RMax(RInt(1), RMul(RInt(2), Rat(RelDen - relNum, RelDen)))
        k == RCeil(RMul(RInt(baseK), reliabilityFactor))
    IN  Max(MinK, Min(MaxK, k))

KOff ==
    /\ kpc = "off"
    /\ problemSteps = 0
    /\ baseRel = 0
    /\ optimalK = 0
    /\ prevK = 0

KInit ==
    /\ kpc = "ready"
    /\ problemSteps \in 0..MaxSteps
    /\ baseRel \in 0..RelDen
    /\ optimalK = 0
    /\ prevK = 0

\* calculateOptimalK(problemSteps, baseReliability)
KCall ==
    /\ kpc = "ready"
    /\ optimalK' = CalculateOptimalK(problemSteps, baseRel)
    /\ kpc' = "done"
    /\ UNCHANGED <<problemSteps, baseRel, prevK, valVars, decVars, cluVars, voteVars, execVars, unitVars>>

\* the next call, for one step more and the same baseReliability
KCallNext ==
    /\ kpc = "done"
    /\ problemSteps < MaxSteps
    /\ problemSteps' = problemSteps + 1
    /\ prevK' = optimalK
    /\ optimalK' = CalculateOptimalK(problemSteps + 1, baseRel)
    /\ UNCHANGED <<kpc, baseRel, valVars, decVars, cluVars, voteVars, execVars, unitVars>>

(***************************************************************************)
(* TaskDecomposer.  A subtask is [id, depends, status]; its action,        *)
(* description, type, target and token estimate are strings and counts     *)
(* that neither the normalization nor the ordering reads.                  *)
(*                                                                         *)
(* The provider's response is a sequence of non-blank lines, each one of   *)
(*   [kind |-> "step", num, depends]  a complete STEP/TYPE/TARGET/DEPENDS  *)
(*                                    block, as the step pattern matches   *)
(*                                    it: num is parseInt(stepNum) and     *)
(*                                    depends the parsed DEPENDS list      *)
(*   [kind |-> "item"]                a line starting with STEP or with a  *)
(*                                    number and . or ), not such a block  *)
(*   [kind |-> "other"]               any other line                       *)
(* The task description is what _decomposeRuleBased reads from it: the     *)
(* number of non-blank sentences split on . and ; , whether a conjunction  *)
(* word occurs, and the number of parts split on a spaced conjunction.     *)
(***************************************************************************)
MaxLines == 2
MaxStepNum == 2
MaxDeps == 1
MaxSentences == 3

Subtask(id, depends) == [id |-> id, depends |-> depends, status |-> "pending"]

RECURSIVE SelectSteps(_)
SelectSteps(lines) ==
    IF lines = <<>> THEN <<>>
    ELSE (IF lines[1].kind = "step"
          THEN <<Subtask(lines[1].num, lines[1].depends)>> ELSE <<>>)
         \o SelectSteps(Tail(lines))

\* the line-by-line fallback: idx is the 0-based index of the line
RECURSIVE SelectItems(_, _)
SelectItems(lines, idx) ==
    IF lines = <<>> THEN <<>>
    ELSE (IF lines[1].kind = "item"
          THEN <<Subtask(idx + 1, IF idx > 0 THEN <<idx>> ELSE <<>>)>> ELSE <<>>)
         \o SelectItems(Tail(lines), idx + 1)

\* _parseDecompositionResponse; a step block also starts with STEP, but the
\* fallback only runs when no block matched
ParseDecompositionResponse(lines) ==
    LET subtasks == SelectSteps(lines)
    IN  IF Len(subtasks) = 0 THEN SelectItems(lines, 0) ELSE subtasks

\* the chain the rule-based splitter builds from n statements
Chain(n) == [idx \in 1..n |-> Subtask(idx, IF idx > 1 THEN <<idx - 1>> ELSE <<>>)]

\* _decomposeRuleBased without the second split on conjunctions
DecomposeRuleBasedSentencesOnly(d) ==
    LET subtasks == Chain(d.sentences)
    IN  IF Len(subtasks) > 0 THEN subtasks ELSE <<Subtask(1, <<>>)>>

\* _decomposeRuleBased
DecomposeRuleBased(d) ==
    LET subtasks == Chain(d.sentences)
    IN  IF Len(subtasks) = 1 /\ d.hasConj
        THEN Chain(d.parts)
        ELSE IF Len(subtasks) > 0 THEN subtasks ELSE <<Subtask(1, <<>>)>>

\* subtasks.findIndex(st => st.id === d), 0-based, -1 when absent
FindIndex(subtasks, d) ==
    IF \E i \in 1..Len(subtasks) : subtasks[i].id = d
    THEN (CHOOSE i \in 1..Len(subtasks) :
            /\ subtasks[i].id = d
            /\ \A j \in 1..(i - 1) : subtasks[j].id # d) - 1
    ELSE -1

\* .filter(d => d > 0 && d <= n)
RECURSIVE FilterInRange(_, _)
FilterInRange(s, n) ==
    IF s = <<>> THEN <<>>
    ELSE (IF s[1] > 0 /\ s[1] <= n THEN <<s[1]>> ELSE <<>>)
         \o FilterInRange(Tail(s), n)

\* the depends list of _validateSubtasks: remapped, then filtered
RemapDepends(subtasks, depends) ==
    LET mapped == [j \in 1..Len(depends) |->
                      LET oldIndex == FindIndex(subtasks, depends[j])
                      IN  IF oldIndex # -1 THEN oldIndex + 1 ELSE depends[j]]
    IN  FilterInRange(mapped, Len(subtasks))

\* _validateSubtasks keeping the ids the subtasks came with
ValidateSubtasksKeepIds(subtasks) ==
    [idx \in 1..Len(subtasks) |->
        [subtasks[idx] EXCEPT !.depends = RemapDepends(subtasks, @)]]

\* _validateSubtasks
ValidateSubtasks(subtasks) ==
    [idx \in 1..Len(subtasks) |->
        [subtasks[idx] EXCEPT !.id = idx,
                              !.depends = RemapDepends(subtasks, @)]]

\* the reverse edges of id: one entry per occurrence of id in a task's
\* depends, in task order
RECURSIVE RequiredBy(_, _)
RequiredBy(subtasks, id) ==
    IF subtasks = <<>> THEN <<>>
    ELSE Repeat(subtasks[1].id,
                Cardinality({i \in 1..Len(subtasks[1].depends) :
                                subtasks[1].depends[i] = id}))
         \o RequiredBy(Tail(subtasks), id)

\* _buildDependencyGraph: id -> {dependsOn, requiredBy}
BuildDependencyGraph(subtasks) ==
    [id \in {subtasks[i].id : i \in 1..Len(subtasks)} |->
        LET t == subtasks[CHOOSE i \in 1..Len(subtasks) :
                            /\ subtasks[i].id = id
                            /\ \A j \in (i + 1)..Len(subtasks) : subtasks[j].id # id]
        IN  [dependsOn |-> t.depends, requiredBy |-> RequiredBy(subtasks, id)]]

\* visit(nodeId) of _topologicalSort, on the pair (visited, order)
RECURSIVE Visit(_, _, _)
RECURSIVE VisitEach(_, _, _)
Visit(graph, nodeId, st) ==
    IF nodeId \in st.visited THEN st
    ELSE LET st1 == [st EXCEPT !.visited = @ \cup {nodeId}]
         IN  IF nodeId \in DOMAIN graph
             THEN LET st2 == VisitEach(graph, graph[nodeId].dependsOn, st1)
                  IN  [st2 EXCEPT !.order = Append(@, nodeId)]
             ELSE st1

VisitEach(graph, ids, st) ==
    IF ids = <<>> THEN st
    ELSE VisitEach(graph, Tail(ids), Visit(graph, ids[1], st))

\* a sort that emits a node before its dependencies
RECURSIVE PreOrderVisit(_, _, _)
RECURSIVE PreOrderEach(_, _, _)
PreOrderVisit(graph, nodeId, st) ==
    IF nodeId \in st.visited THEN st
    ELSE LET st1 == [visited |-> st.visited \cup {nodeId},
                     order |-> IF nodeId \in DOMAIN graph
                               THEN Append(st.order, nodeId) ELSE st.order]
         IN  IF nodeId \in DOMAIN graph
             THEN PreOrderEach(graph, graph[nodeId].dependsOn, st1)
             ELSE st1

PreOrderEach(graph, ids, st) ==
    IF ids = <<>> THEN st
    ELSE PreOrderEach(graph, Tail(ids), PreOrderVisit(graph, ids[1], st))

TopologicalSortPreOrder(graph) ==
    PreOrderEach(graph, Ascending(DOMAIN graph), [visited |-> {}, order |-> <<>>]).order

\* _topologicalSort
TopologicalSort(graph) ==
    VisitEach(graph, Ascending(DOMAIN graph), [visited |-> {}, order |-> <<>>]).order

RECURSIVE MaxOf(_)
MaxOf(s) == IF Len(s) = 1 THEN s[1] ELSE Max(s[1], MaxOf(Tail(s)))

\* subtasks.find(t => t.id === id): its index, 0 when absent
FindTask(subtasks, id) ==
    IF \E i \in 1..Len(subtasks) : subtasks[i].id = id
    THEN CHOOSE i \in 1..Len(subtasks) :
            /\ subtasks[i].id = id
            /\ \A j \in 1..(i - 1) : subtasks[j].id # id
    ELSE 0

\* calculateDepth of _estimateComplexity, with its per-path visited set
RECURSIVE CalculateDepth(_, _, _)
CalculateDepth(subtasks, t, visited) ==
    IF t.id \in visited THEN 0
    ELSE IF Len(t.depends) = 0 THEN 1
    ELSE 1 + MaxOf([j \in 1..Len(t.depends) |->
                      LET i == FindTask(subtasks, t.depends[j])
                      IN  IF i # 0
                          THEN CalculateDepth(subtasks, subtasks[i], visited \cup {t.id})
                          ELSE 0])

\* _estimateComplexity (without the token totals)
EstimateComplexity(subtasks) ==
    LET maxDepth == IF Len(subtasks) = 0 THEN 0
                    ELSE MaxOf([i \in 1..Len(subtasks) |->
                                   Max(0, CalculateDepth(subtasks, subtasks[i], {}))])
    IN  [totalSteps |-> Len(subtasks),
         maxDepth |-> maxDepth,
         parallelizable |-> Cardinality({i \in 1..Len(subtasks) :
                                           Len(subtasks[i].depends) = 0}),
         complexity |-> IF maxDepth > 5 THEN "high"
                        ELSE IF maxDepth > 2 THEN "medium" ELSE "low"]

\* decompose, from the subtasks of either strategy to the plan
MakePlan(raw) ==
    LET subtasks == ValidateSubtasks(raw)
        dependencyGraph == BuildDependencyGraph(subtasks)
    IN  [subtasks |-> subtasks,
         dependencyGraph |-> dependencyGraph,
         executionOrder |-> TopologicalSort(dependencyGraph),
         complexity |-> EstimateComplexity(subtasks)]

RECURSIVE SeqsUpTo(_, _)
SeqsUpTo(S, n) ==
    IF n = 0 THEN {<<>>}
    ELSE LET shorter == SeqsUpTo(S, n - 1)
         IN  shorter \cup {Append(s, x) : s \in shorter, x \in S}

DependsLists == SeqsUpTo(0..MaxStepNum, MaxDeps)

ResponseLines ==
    {[kind |-> "item"], [kind |-> "other"]}
    \cup {[kind |-> "step", num |-> n, depends |-> ds] :
            n \in 1..MaxStepNum, ds \in DependsLists}

Responses == SeqsUpTo(ResponseLines, MaxLines)

Descriptions ==
    {d \in [sentences : 0..MaxSentences, hasConj : BOOLEAN, parts : 1..MaxSentences] :
        d.parts > 1 => d.hasConj}

DecOff ==
    /\ dpc = "off"
    /\ description = None
    /\ useAI = FALSE
    /\ aiResponse = [outcome |-> "none", lines |-> <<>>]
    /\ plan = None

DecInit ==
    /\ dpc = "ready"
    /\ description = None
    /\ useAI \in BOOLEAN
    /\ aiResponse = [outcome |-> "none", lines |-> <<>>]
    /\ plan = None

\* decompose with useAI false: the rule-based strategy, to the return
DecomposeWithRules ==
    /\ dpc = "ready"
    /\ ~useAI
    /\ \E d \in Descriptions :
        /\ description' = d
        /\ plan' = MakePlan(DecomposeRuleBased(d))
    /\ dpc' = "done"
    /\ UNCHANGED <<useAI, aiResponse, valVars, kVars, cluVars, voteVars, execVars, unitVars>>

\* decompose with useAI: _decomposeWithAI awaits the provider
DecomposeAskAI ==
    /\ dpc = "ready"
    /\ useAI
    /\ dpc' = "awaitAI"
    /\ UNCHANGED <<description, useAI, aiResponse, plan, valVars, kVars, cluVars, voteVars, execVars, unitVars>>

\* the provider answers with content: its parse is used as it is
AIResponds ==
    /\ dpc = "awaitAI"
    /\ \E lines \in Responses \ {<<>>} :
        /\ aiResponse' = [outcome |-> "content", lines |-> lines]
        /\ plan' = MakePlan(ParseDecompositionResponse(lines))
    /\ dpc' = "done"
    /\ UNCHANGED <<description, useAI, valVars, kVars, cluVars, voteVars, execVars, unitVars>>

\* the provider answers without content: fall through to the rule-based strategy
AIRespondsEmpty ==
    /\ dpc = "awaitAI"
    /\ aiResponse' = [outcome |-> "empty", lines |-> <<>>]
    /\ \E d \in Descriptions :
        /\ description' = d
        /\ plan' = MakePlan(DecomposeRuleBased(d))
    /\ dpc' = "done"
    /\ UNCHANGED <<useAI, valVars, kVars, cluVars, voteVars, execVars, unitVars>>

\* the provider call throws: caught, then the rule-based strategy
AIFails ==
    /\ dpc = "awaitAI"
    /\ aiResponse' = [outcome |-> "failed", lines |-> <<>>]
    /\ \E d \in Descriptions :
        /\ description' = d
        /\ plan' = MakePlan(DecomposeRuleBased(d))
    /\ dpc' = "done"
    /\ UNCHANGED <<useAI, valVars, kVars, cluVars, voteVars, execVars, unitVars>>

(***************************************************************************)
(* Texts the clusterer and the vote are run on.  Tokens are numbered.      *)
(***************************************************************************)
Sig(p, a) == [params |-> p, async |-> a]

\* function f(a) { return a }
CodeF ==
    [BaseText EXCEPT !.likeCode = TRUE, !.markers = {"function"},
                     !.functions = <<Sig(1, FALSE)>>, !.tokens = {1}]

\* the same function with one more identifier in its body
CodeG == [CodeF EXCEPT !.tokens = {1, 2}]

\* import x from 'lib'; class C { m() {} }
CodeClass ==
    [BaseText EXCEPT !.likeCode = TRUE, !.markers = {"class", "import"},
                     !.classes = <<1>>, !.imports = <<"lib">>, !.tokens = {3}]

\* class A {}
CodeEmptyClass ==
    [BaseText EXCEPT !.likeCode = TRUE, !.markers = {"class"},
                     !.classes = <<0>>, !.ntokens = 4]

\* an apology of the model: two hallucination patterns match
Apology ==
    [BaseText EXCEPT !.halluc = 2, !.module = FALSE, !.script = FALSE,
                     !.tokens = {4, 5}]

\* prose that is neither code nor flagged
Prose == [BaseText EXCEPT !.module = FALSE, !.script = FALSE, !.tokens = {6, 7}]

(***************************************************************************)
(* One call of cluster.                                                    *)
(***************************************************************************)
MaxResponses == 4

ClusterPool == {CodeF, CodeG, CodeClass, CodeEmptyClass, Prose}

Thresholds == {RInt(0), Rat(7, 10), RInt(1), Rat(3, 2)}

CluOff ==
    /\ cpc = "off"
    /\ responses = <<>>
    /\ similarityThreshold = RInt(0)
    /\ clusters = <<>>

CluInit ==
    /\ cpc = "ready"
    /\ responses \in SeqsUpTo(ClusterPool, MaxResponses)
    /\ similarityThreshold \in Thresholds
    /\ clusters = <<>>

\* cluster(responses, similarityThreshold) runs to its return
ClusterCall ==
    /\ cpc = "ready"
    /\ clusters' \in Cluster(responses, similarityThreshold)
    /\ cpc' = "done"
    /\ UNCHANGED <<responses, similarityThreshold, valVars, kVars, decVars, voteVars, execVars, unitVars>>

(***************************************************************************)
(* VotingManager.vote                                                      *)
(***************************************************************************)
DefaultK == 3
DefaultMaxCandidates == 10
SimilarityThreshold == Rat(7, 10)
AllInvalidConfidence == Rat(3, 10)
FullSample == 5

\* the red-flagging loop of vote letting every candidate through
RECURSIVE RedFlagKeepAll(_, _)
RedFlagKeepAll(cands, t) ==
    IF cands = <<>> THEN <<>>
    ELSE <<[index |-> cands[1].index, content |-> cands[1].content,
            confidence |-> Validate(cands[1].content, t, NoOptions).confidence]>>
         \o RedFlagKeepAll(Tail(cands), t)

\* the red-flagging loop of vote: the candidates validate accepts, in order
RECURSIVE RedFlag(_, _)
RedFlag(cands, t) ==
    IF cands = <<>> THEN <<>>
    ELSE LET v == Validate(cands[1].content, t, NoOptions)
         IN  (IF v.valid
              THEN <<[index |-> cands[1].index, content |-> cands[1].content,
                      confidence |-> v.confidence]>>
              ELSE <<>>)
             \o RedFlag(Tail(cands), t)

\* the all-invalid return reporting the winner's own validator confidence
LeastBadOwnConfidence(cands, t, k) ==
    LET order == StableDescOrder([i \in 1..Len(cands) |->
                     RInt(Validate(cands[i].content, t, NoOptions).confidence)])
    IN  [winner |-> cands[order[1]].content,
         confidence |-> Rat(Validate(cands[order[1]].content, t, NoOptions).confidence,
                            FullConfidence),
         votingStats |-> [totalCandidates |-> Len(cands), validCandidates |-> 0,
                          clusterCount |-> 0, votesNeeded |-> k, reliable |-> FALSE],
         warning |-> "all_invalid"]

\* no valid candidate: the candidate validate scores highest, first on ties
LeastBad(cands, t, k) ==
    LET order == StableDescOrder([i \in 1..Len(cands) |->
                     RInt(Validate(cands[i].content, t, NoOptions).confidence)])
    IN  [winner |-> cands[order[1]].content,
         confidence |-> AllInvalidConfidence,
         votingStats |-> [totalCandidates |-> Len(cands), validCandidates |-> 0,
                          clusterCount |-> 0, votesNeeded |-> k, reliable |-> FALSE],
         warning |-> "all_invalid"]

\* exactly one valid candidate: returned without any vote
OnlyValid(cands, valid, k) ==
    [winner |-> valid[1].content,
     confidence |-> Rat(valid[1].confidence, FullConfidence),
     votingStats |-> [totalCandidates |-> Len(cands), validCandidates |-> 1,
                      clusterCount |-> 1, votesNeeded |-> k, reliable |-> FALSE],
     warning |-> "single_valid"]

\* VotingManager._calculateConfidence
CalculateConfidence(winner, runnerUpVotes, k, totalValid) ==
    LET margin == winner.size - runnerUpVotes
        marginConfidence == RMin(RInt(1), Rat(margin, k))
        clusterConfidence == winner.avgSimilarity
        sampleConfidence == RMin(RInt(1), Rat(totalValid, FullSample))
        confidence == RSum(<<RMul(Rat(5, 10), marginConfidence),
                             RMul(Rat(3, 10), clusterConfidence),
                             RMul(Rat(2, 10), sampleConfidence)>>)
    IN  RMax(Rat(1, 10), RMin(RInt(1), confidence))

\* step 4 of vote declaring a winner only when the margin exceeds k
FirstToAheadByKStrict(cands, valid, cl, k) ==
    LET votes == SortBySize(cl)
        winner == votes[1]
        runnerUpVotes == IF Len(votes) >= 2 THEN votes[2].size ELSE 0
        margin == winner.size - runnerUpVotes
        hasWinner == margin > k
    IN  [winner |-> winner.representative,
         confidence |-> CalculateConfidence(winner, runnerUpVotes, k, Len(valid)),
         votingStats |-> [totalCandidates |-> Len(cands), validCandidates |-> Len(valid),
                          clusterCount |-> Len(cl), winnerVotes |-> winner.size,
                          runnerUpVotes |-> runnerUpVotes, margin |-> margin,
                          votesNeeded |-> k, reliable |-> hasWinner],
         clusters |-> cl,
         warning |-> IF hasWinner THEN "none" ELSE "margin_below_k"]

\* first-to-ahead-by-k taking a margin one short of k
FirstToAheadByKLenient(cands, valid, cl, k) ==
    LET votes == SortBySize(cl)
        winner == votes[1]
        runnerUpVotes == IF Len(votes) >= 2 THEN votes[2].size ELSE 0
        margin == winner.size - runnerUpVotes
        hasWinner == margin >= k - 1
    IN  [winner |-> winner.representative,
         confidence |-> CalculateConfidence(winner, runnerUpVotes, k, Len(valid)),
         votingStats |-> [totalCandidates |-> Len(cands), validCandidates |-> Len(valid),
                          clusterCount |-> Len(cl), winnerVotes |-> winner.size,
                          runnerUpVotes |-> runnerUpVotes, margin |-> margin,
                          votesNeeded |-> k, reliable |-> hasWinner],
         clusters |-> cl,
         warning |-> IF hasWinner THEN "none" ELSE "margin_below_k"]

\* step 4 of vote: first-to-ahead-by-k over the clusters
FirstToAheadByK(cands, valid, cl, k) ==
    LET votes == SortBySize(cl)
        winner == votes[1]
        runnerUpVotes == IF Len(votes) >= 2 THEN votes[2].size ELSE 0
        margin == winner.size - runnerUpVotes
        hasWinner == margin >= k
    IN  [winner |-> winner.representative,
         confidence |-> CalculateConfidence(winner, runnerUpVotes, k, Len(valid)),
         votingStats |-> [totalCandidates |-> Len(cands), validCandidates |-> Len(valid),
                          clusterCount |-> Len(cl), winnerVotes |-> winner.size,
                          runnerUpVotes |-> runnerUpVotes, margin |-> margin,
                          votesNeeded |-> k, reliable |-> hasWinner],
         clusters |-> cl,
         warning |-> IF hasWinner THEN "none" ELSE "margin_below_k"]

\* const k = options.k || this.defaultK
EffectiveK == OrDefault(voteOptions.k, DefaultK)

\* const maxCandidates = options.maxCandidates || this.maxCandidates
EffectiveMaxCandidates == OrDefault(voteOptions.maxCandidates, DefaultMaxCandidates)

Contents(valid) == [i \in 1..Len(valid) |-> valid[i].content]

VoteOff ==
    /\ votepc = "off"
    /\ provider = <<>>
    /\ voteTask = [type |-> None, expectedFormat |-> None, expectedLength |-> 0]
    /\ voteOptions = [k |-> 0, maxCandidates |-> 0]
    /\ requested = 0
    /\ requests = <<>>
    /\ candidates = <<>>
    /\ validCandidates = <<>>
    /\ voteResult = None

\* vote(messages, task, options) is called and the first request goes out
VoteCall ==
    /\ votepc = "ready"
    /\ votepc' = "generating"
    /\ UNCHANGED <<provider, voteTask, voteOptions, requests, requested, candidates,
                   validCandidates, voteResult, valVars, kVars, decVars, cluVars, execVars, unitVars>>

\* generateCandidates: complete() resolves with content, the candidate is kept
ProviderAnswers ==
    /\ votepc = "generating"
    /\ requested < EffectiveMaxCandidates
    /\ \E t \in provider[requested + 1] :
          candidates' = Append(candidates, [index |-> requested, content |-> t])
    /\ requested' = requested + 1
    /\ requests' = Append(requests, "content")
    /\ UNCHANGED <<votepc, provider, voteTask, voteOptions, validCandidates,
                   voteResult, valVars, kVars, decVars, cluVars, execVars, unitVars>>

\* generateCandidates: complete() resolves without content, nothing is kept
ProviderAnswersNothing ==
    /\ votepc = "generating"
    /\ requested < EffectiveMaxCandidates
    /\ requested' = requested + 1
    /\ requests' = Append(requests, "nothing")
    /\ UNCHANGED <<votepc, provider, voteTask, voteOptions, candidates,
                   validCandidates, voteResult, valVars, kVars, decVars, cluVars, execVars, unitVars>>

\* a rejected complete() ending the whole vote instead of being skipped
ProviderFailsAborts ==
    /\ votepc = "generating"
    /\ requested < EffectiveMaxCandidates
    /\ requested' = requested + 1
    /\ requests' = Append(requests, "error")
    /\ votepc' = "failed"
    /\ UNCHANGED <<provider, voteTask, voteOptions, candidates,
                   validCandidates, voteResult, valVars, kVars, decVars, cluVars, execVars, unitVars>>

\* generateCandidates: complete() rejects for another reason (no context
\* window, invalid response, HTTP error); the error is caught and logged
ProviderFails ==
    /\ votepc = "generating"
    /\ requested < EffectiveMaxCandidates
    /\ requested' = requested + 1
    /\ requests' = Append(requests, "error")
    /\ UNCHANGED <<votepc, provider, voteTask, voteOptions, candidates,
                   validCandidates, voteResult, valVars, kVars, decVars, cluVars, execVars, unitVars>>

\* generateCandidates: complete() rejects with the interceptor's connection
\* error (refused, reset, timed out); the same catch logs it
ProviderConnectionFault ==
    /\ votepc = "generating"
    /\ requested < EffectiveMaxCandidates
    /\ requested' = requested + 1
    /\ requests' = Append(requests, "connection")
    /\ UNCHANGED <<votepc, provider, voteTask, voteOptions, candidates,
                   validCandidates, voteResult, valVars, kVars, decVars, cluVars, execVars, unitVars>>

\* vote: no candidate at all, 'Failed to generate any candidates' is thrown
VoteThrows ==
    /\ votepc = "generating"
    /\ requested = EffectiveMaxCandidates
    /\ candidates = <<>>
    /\ votepc' = "failed"
    /\ UNCHANGED <<provider, voteTask, voteOptions, requests, requested, candidates,
                   validCandidates, voteResult, valVars, kVars, decVars, cluVars, execVars, unitVars>>

\* vote: every candidate is red-flagged, the least bad one is returned
VoteReturnsLeastBad ==
    /\ votepc = "generating"
    /\ requested = EffectiveMaxCandidates
    /\ candidates # <<>>
    /\ Len(RedFlag(candidates, voteTask)) = 0
    /\ validCandidates' = RedFlag(candidates, voteTask)
    /\ voteResult' = LeastBad(candidates, voteTask, EffectiveK)
    /\ votepc' = "done"
    /\ UNCHANGED <<provider, voteTask, voteOptions, requests, requested, candidates,
                   valVars, kVars, decVars, cluVars, execVars, unitVars>>

\* vote: a single candidate passes red-flagging and is returned unvoted
VoteReturnsOnlyValid ==
    /\ votepc = "generating"
    /\ requested = EffectiveMaxCandidates
    /\ Len(RedFlag(candidates, voteTask)) = 1
    /\ validCandidates' = RedFlag(candidates, voteTask)
    /\ voteResult' = OnlyValid(candidates, RedFlag(candidates, voteTask), EffectiveK)
    /\ votepc' = "done"
    /\ UNCHANGED <<provider, voteTask, voteOptions, requests, requested, candidates,
                   valVars, kVars, decVars, cluVars, execVars, unitVars>>

\* vote: two or more valid candidates are clustered and the clusters vote
VoteReturnsVoted ==
    /\ votepc = "generating"
    /\ requested = EffectiveMaxCandidates
    /\ Len(RedFlag(candidates, voteTask)) >= 2
    /\ validCandidates' = RedFlag(candidates, voteTask)
    /\ \E cl \in Cluster(Contents(RedFlag(candidates, voteTask)), SimilarityThreshold) :
          voteResult' = FirstToAheadByK(candidates, RedFlag(candidates, voteTask),
                                        cl, EffectiveK)
    /\ votepc' = "done"
    /\ UNCHANGED <<provider, voteTask, voteOptions, requests, requested, candidates,
                   valVars, kVars, decVars, cluVars, execVars, unitVars>>

\* ---- a vote over whatever the provider may answer
MaxCandidates == 3
MaxVoteK == 3

GeneralPool == {CodeF, CodeG, CodeClass, CodeEmptyClass, Apology, BlankText, Prose}

VoteTasks ==
    {[type |-> ty, expectedFormat |-> None, expectedLength |-> 0] : ty \in {"code", None}}

VoteInit ==
    /\ votepc = "ready"
    /\ provider = [i \in 1..MaxCandidates |-> GeneralPool]
    /\ voteTask \in VoteTasks
    /\ voteOptions \in [k : 0..MaxVoteK, maxCandidates : 1..MaxCandidates]
    /\ requested = 0
    /\ requests = <<>>
    /\ candidates = <<>>
    /\ validCandidates = <<>>
    /\ voteResult = None

ScenarioTask == [type |-> None, expectedFormat |-> None, expectedLength |-> 0]

\* ---- a vote whose requests may each succeed, come back empty or fail
FaultyPool == {CodeF, Apology}

VoteInitFaulty ==
    /\ votepc = "ready"
    /\ provider = [i \in 1..MaxCandidates |-> FaultyPool]
    /\ voteTask = ScenarioTask
    /\ voteOptions \in [k : {0}, maxCandidates : 1..MaxCandidates]
    /\ requested = 0
    /\ requests = <<>>
    /\ candidates = <<>>
    /\ validCandidates = <<>>
    /\ voteResult = None

\* ---- scenario A: the provider answers every request with the same valid text
ScenarioCandidates == 5
MaxFeatures == 2

IdenticalTexts ==
    {[BaseText EXCEPT !.likeCode = TRUE, !.functions = fs, !.classes = cs,
                      !.imports = is, !.tokens = tk] :
        fs \in SeqsUpTo({Sig(0, FALSE), Sig(1, TRUE)}, MaxFeatures),
        cs \in SeqsUpTo({0, 2}, MaxFeatures),
        is \in {<<>>, <<"lib">>, <<"lib", "fs">>},
        tk \in {{}, {1, 2}}}
    \cup {Prose}

ScenarioOptions == [k : {0, 2}, maxCandidates : 2..ScenarioCandidates]

VoteInitIdentical ==
    /\ votepc = "ready"
    /\ \E t \in IdenticalTexts : provider = [i \in 1..ScenarioCandidates |-> {t}]
    /\ voteTask = ScenarioTask
    /\ voteOptions \in ScenarioOptions
    /\ requested = 0
    /\ requests = <<>>
    /\ candidates = <<>>
    /\ validCandidates = <<>>
    /\ voteResult = None

\* ---- scenario B: the answer to request i uses token i and no other
DisjointTexts(i) ==
    {[BaseText EXCEPT !.tokens = {i}],
     [CodeF EXCEPT !.functions = <<Sig(i, FALSE)>>, !.tokens = {i}],
     [CodeF EXCEPT !.functions = <<Sig(0, FALSE)>>, !.tokens = {i}],
     [CodeF EXCEPT !.functions = <<Sig(i, FALSE)>>, !.tokens = {}],
     [Prose EXCEPT !.tokens = {i}]}

VoteInitDisjoint ==
    /\ votepc = "ready"
    /\ provider = [i \in 1..ScenarioCandidates |-> DisjointTexts(i)]
    /\ voteTask = ScenarioTask
    /\ voteOptions \in ScenarioOptions
    /\ requested = 0
    /\ requests = <<>>
    /\ candidates = <<>>
    /\ validCandidates = <<>>
    /\ voteResult = None

(***************************************************************************)
(* TaskDecomposer.getReadySubtasks / completeSubtask                       *)
(***************************************************************************)
\* getReadySubtasks: the positions of the pending subtasks all of whose
\* dependencies exist and are completed
GetReadySubtasks(subtasks) ==
    {i \in 1..Len(subtasks) :
        /\ subtasks[i].status = "pending"
        /\ \A d \in 1..Len(subtasks[i].depends) :
              /\ FindTask(subtasks, subtasks[i].depends[d]) # 0
              /\ subtasks[FindTask(subtasks, subtasks[i].depends[d])].status = "completed"}

\* completeSubtask
CompleteSubtask(subtasks, taskId) ==
    [i \in 1..Len(subtasks) |->
        IF subtasks[i].id = taskId
        THEN [subtasks[i] EXCEPT !.status = "completed"]
        ELSE subtasks[i]]

(***************************************************************************)
(* MicroagentExecutor.executeTask.  A voting round is reduced to how it    *)
(* ends: vote returns a reliable result, returns an unreliable one, or     *)
(* throws.  The winner of a subtask is named by the subtask's id.          *)
(***************************************************************************)
MaxPlanSteps == 3

\* the depends lists a provider response may give step i of n: none, the
\* previous step, the next step, all earlier steps
DepChoices(i, n) ==
    {<<>>}
    \cup (IF i > 1 THEN {<<i - 1>>} ELSE {})
    \cup (IF i < n THEN {<<i + 1>>} ELSE {})
    \cup (IF i > 2 THEN {[j \in 1..(i - 1) |-> j]} ELSE {})

\* what _parseDecompositionResponse may return for a response of n steps
ParsedSteps(n) ==
    {[i \in 1..n |-> Subtask(i, deps[i])] :
        deps \in {g \in [1..n -> UNION {DepChoices(i, n) : i \in 1..n}] :
                    \A i \in 1..n : g[i] \in DepChoices(i, n)}}

\* the plans decompose may hand to executeTask
ExecPlans == {MakePlan(raw) : raw \in UNION {ParsedSteps(n) : n \in 0..MaxPlanSteps}}

ExecOptions == [requireHighConfidence : BOOLEAN, stopOnError : BOOLEAN]

\* previousResults.filter(r => subtask.depends.includes(r.subtask.id))
MaxRelevantFiles == 3

\* context.relevantFiles: absent, or a list of files (file i named i)
NoRelevantFiles == [given |-> FALSE, files |-> <<>>]

Contexts ==
    {NoRelevantFiles}
    \cup {[given |-> TRUE, files |-> [i \in 1..n |-> i]] : n \in 0..MaxRelevantFiles}

\* the value of minimalContext before any context is built
NoMinimalContext == [task |-> 0, dependencies |-> <<>>, relevantFiles |-> NoRelevantFiles]

\* the filter taking every previous result
IsDependencyAlways(depends, r) == TRUE

\* subtask.depends.includes(r.subtask.id)
IsDependency(depends, r) == \E d \in 1..Len(depends) : depends[d] = r.subtask

\* previousResults.filter(r => subtask.depends.includes(r.subtask.id)).map(...)
RECURSIVE FilterDependencies(_, _)
FilterDependencies(previousResults, depends) ==
    IF previousResults = <<>> THEN <<>>
    ELSE (IF IsDependency(depends, previousResults[1])
          THEN <<[task |-> previousResults[1].subtask, result |-> previousResults[1].result]>>
          ELSE <<>>)
         \o FilterDependencies(Tail(previousResults), depends)

\* globalContext.relevantFiles.slice(0, 2)
SliceTwo(files) == SubSeq(files, 1, IF Len(files) < 2 THEN Len(files) ELSE 2)

\* _buildMinimalContext leaving the dependencies out
BuildMinimalContextBare(subtask, globalContext, previousResults) ==
    [task |-> subtask.id, dependencies |-> <<>>,
     relevantFiles |-> [globalContext EXCEPT !.files = SliceTwo(@)]]

\* _buildMinimalContext: the subtask, the results of its direct dependencies
\* and the first two relevant files (the target file is TargetFile below)
BuildMinimalContext(subtask, globalContext, previousResults) ==
    [task |-> subtask.id,
     dependencies |-> IF Len(subtask.depends) > 0
                      THEN FilterDependencies(previousResults, subtask.depends)
                      ELSE <<>>,
     relevantFiles |-> [globalContext EXCEPT !.files = SliceTwo(@)]]

\* the log status without the requireHighConfidence test
DispositionNoThreshold(reliable, requireHighConfidence) ==
    IF reliable THEN "success" ELSE "warning"

\* the status executeTask logs for a result vote returned
Disposition(reliable, requireHighConfidence) ==
    IF reliable THEN "success"
    ELSE IF requireHighConfidence THEN "error" ELSE "warning"

\* the catch block never rethrowing
AfterErrorContinue(stopOnError) == "continue"

\* the catch block: rethrow when options.stopOnError
AfterError(stopOnError) == IF stopOnError THEN "abort" ELSE "continue"

\* this.executionLog.push putting the entry in place of the log
PushLogReplacing(log, entry) == <<entry>>

\* this.executionLog.push
PushLog(log, entry) == Append(log, entry)

\* the first position from p on whose id names a subtask of the plan
RECURSIVE NextFound(_, _)
NextFound(pl, p) ==
    IF p > Len(pl.executionOrder) THEN p
    ELSE IF FindTask(pl.subtasks, pl.executionOrder[p]) # 0 THEN p
    ELSE NextFound(pl, p + 1)

\* the for loop from position p on: up to the vote of the next subtask
\* found, its minimal context built from res, or to the summary
EnterLoop(pl, p, res) ==
    LET q == NextFound(pl, p)
    IN  IF q <= Len(pl.executionOrder)
        THEN /\ pos' = q
             /\ xpc' = "voting"
             /\ attempted' = Append(attempted, pl.executionOrder[q])
             /\ minimalContext' =
                   BuildMinimalContext(
                       pl.subtasks[FindTask(pl.subtasks, pl.executionOrder[q])],
                       context, res)
        ELSE /\ pos' = q
             /\ xpc' = "done"
             /\ UNCHANGED <<attempted, minimalContext>>

ExecOff ==
    /\ xpc = "off"
    /\ currentPlan = [subtasks |-> <<>>, executionOrder |-> <<>>]
    /\ execOptions = [requireHighConfidence |-> FALSE, stopOnError |-> FALSE]
    /\ pos = 0
    /\ minimalContext = NoMinimalContext
    /\ attempted = <<>>
    /\ voteOutcomes = <<>>
    /\ executionLog = <<>>
    /\ results = <<>>
    /\ completedSubtasks = <<>>
    /\ execError = "none"
    /\ calls = <<>>
    /\ context = NoRelevantFiles

ExecInit ==
    /\ xpc = "ready"
    /\ currentPlan = [subtasks |-> <<>>, executionOrder |-> <<>>]
    /\ execOptions \in ExecOptions
    /\ pos = 0
    /\ minimalContext = NoMinimalContext
    /\ attempted = <<>>
    /\ voteOutcomes = <<>>
    /\ executionLog = <<>>
    /\ results = <<>>
    /\ completedSubtasks = <<>>
    /\ execError = "none"
    /\ calls = <<>>
    /\ context \in Contexts

OtherVars == <<valVars, kVars, decVars, cluVars, voteVars, context, calls, unitVars>>

\* executeTask is called: the log is reset, decompose is awaited
ExecuteTaskCall ==
    /\ xpc = "ready"
    /\ executionLog' = <<>>
    /\ xpc' = "decomposing"
    /\ UNCHANGED <<currentPlan, execOptions, pos, minimalContext, attempted,
                   voteOutcomes, results, completedSubtasks, execError, OtherVars>>

\* decompose resolves: the plan is stored and the loop runs to the first vote
PlanArrives ==
    /\ xpc = "decomposing"
    /\ \E pl \in ExecPlans :
          /\ currentPlan' = [subtasks |-> pl.subtasks, executionOrder |-> pl.executionOrder]
          /\ EnterLoop(pl, 1, results)
    /\ UNCHANGED <<execOptions, voteOutcomes, executionLog, results,
                   completedSubtasks, execError, OtherVars>>

\* the subtask being voted on
Current == currentPlan.subtasks[FindTask(currentPlan.subtasks, currentPlan.executionOrder[pos])]

\* a result vote returned is applied: _applyResult, the log entry, the
\* results entry, completeSubtask, then the loop goes on
Applied(status) ==
    LET res == Append(results, [subtask |-> Current.id, result |-> Current.id])
        pl == [currentPlan EXCEPT !.subtasks = CompleteSubtask(currentPlan.subtasks, Current.id)]
    IN  /\ completedSubtasks' = Append(completedSubtasks, Current.id)
        /\ executionLog' = PushLog(executionLog, [taskId |-> Current.id, status |-> status])
        /\ results' = res
        /\ currentPlan' = pl
        /\ EnterLoop(pl, pos + 1, res)
        /\ UNCHANGED execError

\* the catch block: the error entry, then the rethrow or the next subtask
Caught(error) ==
    /\ executionLog' = PushLog(executionLog, [taskId |-> Current.id, status |-> "error"])
    /\ IF AfterError(execOptions.stopOnError) = "abort"
       THEN /\ xpc' = "aborted"
            /\ execError' = error
            /\ UNCHANGED <<pos, attempted, minimalContext>>
       ELSE /\ EnterLoop(currentPlan, pos + 1, results)
            /\ UNCHANGED execError
    /\ UNCHANGED <<currentPlan, results, completedSubtasks>>

\* vote resolves with reliable = true
VoteReliable ==
    /\ xpc = "voting"
    /\ voteOutcomes' = Append(voteOutcomes, "reliable")
    /\ Applied(Disposition(TRUE, execOptions.requireHighConfidence))
    /\ UNCHANGED <<execOptions, OtherVars>>

\* vote resolves with reliable = false
VoteUnreliable ==
    /\ xpc = "voting"
    /\ voteOutcomes' = Append(voteOutcomes, "unreliable")
    /\ IF Disposition(FALSE, execOptions.requireHighConfidence) = "error"
       THEN Caught("low_confidence")
       ELSE Applied(Disposition(FALSE, execOptions.requireHighConfidence))
    /\ UNCHANGED <<execOptions, OtherVars>>

\* vote rejects: no candidate was generated
VoteRaised ==
    /\ xpc = "voting"
    /\ voteOutcomes' = Append(voteOutcomes, "raised")
    /\ Caught("no_candidates")
    /\ UNCHANGED <<execOptions, OtherVars>>

(***************************************************************************)
(* Two executeTask calls on one MicroagentExecutor.  this.currentPlan and  *)
(* this.executionLog are fields of the executor; everything else in        *)
(* executeTask is local to the call.  A call gives up control at its       *)
(* awaits: of decompose and of _executeSubtask.  The task description of   *)
(* call c is c, so plan.originalTask names the call a plan was made for.   *)
(***************************************************************************)
Calls == 1..2

\* the plans decompose may hand to a call: the rule-based chains
MaxOverlapSteps == 2

OverlapPlans == {MakePlan(Chain(n)) : n \in 0..MaxOverlapSteps}

\* a call that has not started
IdleCall(stopOnError) ==
    [pc |-> "idle", stopOnError |-> stopOnError, order |-> <<>>, pos |-> 0,
     subtaskOf |-> 0, completedCount |-> 0, errorCount |-> 0,
     results |-> <<>>, summary |-> <<>>]

OverlapInit ==
    /\ xpc = "off"
    /\ currentPlan = [subtasks |-> <<>>, executionOrder |-> <<>>]
    /\ execOptions = [requireHighConfidence |-> FALSE, stopOnError |-> FALSE]
    /\ pos = 0
    /\ minimalContext = NoMinimalContext
    /\ attempted = <<>>
    /\ voteOutcomes = <<>>
    /\ executionLog = <<>>
    /\ results = <<>>
    /\ completedSubtasks = <<>>
    /\ execError = "none"
    /\ calls \in {[c \in Calls |-> IdleCall(s[c])] : s \in [Calls -> BOOLEAN]}
    /\ context = NoRelevantFiles

RunVars == <<xpc, execOptions, pos, minimalContext, attempted, voteOutcomes,
             results, completedSubtasks, execError, context>>

\* the for loop of a call from position p of its executionOrder on, the
\* executor's plan being pl and its log being log: up to the await of the
\* next subtask found in pl, or to the summary
Resume(call, pl, log, p) ==
    LET q == NextFound([subtasks |-> pl.subtasks, executionOrder |-> call.order], p)
    IN  IF q <= Len(call.order)
        THEN [call EXCEPT !.pc = "voting", !.pos = q, !.subtaskOf = pl.originalTask]
        ELSE [call EXCEPT !.pc = "done", !.pos = q, !.summary = log]

\* call c starts: this.executionLog = [], then the await of decompose
OverlapStart(c) ==
    /\ calls[c].pc = "idle"
    /\ executionLog' = <<>>
    /\ calls' = [calls EXCEPT ![c].pc = "decomposing"]
    /\ UNCHANGED <<currentPlan, RunVars, valVars, kVars, decVars, cluVars, voteVars, unitVars>>

\* decompose resolves for call c: this.currentPlan is assigned and the loop
\* over its executionOrder begins
OverlapPlanArrives(c) ==
    /\ calls[c].pc = "decomposing"
    /\ \E made \in OverlapPlans :
          LET pl == [originalTask |-> c, subtasks |-> made.subtasks,
                     executionOrder |-> made.executionOrder]
          IN  /\ currentPlan' = pl
              /\ calls' = [calls EXCEPT
                    ![c] = Resume([calls[c] EXCEPT !.order = pl.executionOrder],
                                  pl, executionLog, 1)]
    /\ UNCHANGED <<executionLog, RunVars, valVars, kVars, decVars, cluVars, voteVars, unitVars>>

\* the vote of call c resolves with a result, which is applied: the log
\* entry, results.push, completeSubtask on this.currentPlan, next subtask
OverlapVoteReturns(c) ==
    \E reliable \in BOOLEAN :
    LET call == calls[c]
        taskId == call.order[call.pos]
        log == PushLog(executionLog,
                       [taskId |-> taskId, of |-> call.subtaskOf,
                        status |-> Disposition(reliable, FALSE)])
        pl == [currentPlan EXCEPT !.subtasks = CompleteSubtask(@, taskId)]
    IN  /\ call.pc = "voting"
        /\ executionLog' = log
        /\ currentPlan' = pl
        /\ calls' = [calls EXCEPT
              ![c] = Resume([call EXCEPT !.completedCount = @ + 1,
                                         !.results = Append(@, <<call.subtaskOf, taskId>>)],
                            pl, log, call.pos + 1)]
        /\ UNCHANGED <<RunVars, valVars, kVars, decVars, cluVars, voteVars, unitVars>>

\* the vote of call c rejects: the catch block
OverlapVoteRaised(c) ==
    LET call == calls[c]
        log == PushLog(executionLog,
                       [taskId |-> call.order[call.pos], of |-> call.subtaskOf,
                        status |-> "error"])
        counted == [call EXCEPT !.errorCount = @ + 1]
    IN  /\ call.pc = "voting"
        /\ executionLog' = log
        /\ calls' = [calls EXCEPT
              ![c] = IF AfterError(call.stopOnError) = "abort"
                     THEN [counted EXCEPT !.pc = "aborted"]
                     ELSE Resume(counted, currentPlan, log, call.pos + 1)]
        /\ UNCHANGED <<currentPlan, RunVars, valVars, kVars, decVars, cluVars, voteVars, unitVars>>

(***************************************************************************)
(* _topologicalSort and the calculateDepth of _estimateComplexity, one     *)
(* call or return at a time.  A pending call of visit is a frame           *)
(* [node, deps]: deps are the dependencies still to visit.  A pending call *)
(* of calculateDepth is a frame [id, visited, deps, best]: visited is the  *)
(* call's own set, best the largest depth its dependencies gave so far.    *)
(***************************************************************************)
NoSortRun == [visited |-> {}, order |-> <<>>, stack |-> <<>>, roots |-> <<>>]

NoDepthRun == [maxDepth |-> 0, stack |-> <<>>, tasks |-> <<>>]

WalkOff ==
    /\ wpc = "off"
    /\ walkSubtasks = <<>>
    /\ sortRun = NoSortRun
    /\ depthRun = NoDepthRun

(***************************************************************************)
(* TokenCounter and the target file of _buildMinimalContext.  A text is    *)
(* given by its profile under the encoder: `dense` characters that are one *)
(* token each, then a `run` of characters that form one token (as does     *)
(* every non-empty prefix of the run), then `rest` characters that are one *)
(* token each.  Products and quotients are taken in exact arithmetic.      *)
(***************************************************************************)
EmptyFile == [dense |-> 0, run |-> 0, rest |-> 0]

NoTargetFile == [content |-> [text |-> EmptyFile, marked |-> FALSE], truncated |-> FALSE]

TextLength(t) == t.dense + t.run + t.rest

\* text.substring(0, n); a negative n counts as 0
Substring(t, n) ==
    LET p == IF n < 0 THEN 0 ELSE n
    IN  [dense |-> Min(p, t.dense),
         run |-> Min(Max(p - t.dense, 0), t.run),
         rest |-> Min(Max(p - t.dense - t.run, 0), t.rest)]

\* the length of '\n... [truncated]'
MarkerChars == 16

\* the tokens the encoder gives the marker: at least one, whatever the encoder
MarkerTokens == 1

\* estimateTokens: Math.ceil(text.length / 3.5)
EstimateTokens(chars) == (2 * chars + 6) \div 7

\* countTokens of the text, followed by the marker when marked
CountTokens(enc, t, marked) ==
    IF TextLength(t) = 0 /\ ~marked THEN 0
    ELSE IF enc
         THEN t.dense + (IF t.run > 0 THEN 1 ELSE 0) + t.rest
              + (IF marked THEN MarkerTokens ELSE 0)
         ELSE EstimateTokens(TextLength(t) + (IF marked THEN MarkerChars ELSE 0))

\* the while loop of truncateToTokenLimit
RECURSIVE ShortenToLimit(_, _, _)
ShortenToLimit(enc, truncated, maxTokens) ==
    IF CountTokens(enc, truncated, FALSE) > maxTokens /\ TextLength(truncated) > 0
    THEN ShortenToLimit(enc, Substring(truncated, TextLength(truncated) - 100), maxTokens)
    ELSE truncated

\* truncateToTokenLimit
TruncateToTokenLimit(enc, t, maxTokens) ==
    IF TextLength(t) = 0 THEN [text |-> EmptyFile, marked |-> FALSE]
    ELSE LET currentTokens == CountTokens(enc, t, FALSE)
         IN  IF currentTokens <= maxTokens THEN [text |-> t, marked |-> FALSE]
             ELSE LET estimatedChars ==
                          (TextLength(t) * maxTokens * 95) \div (currentTokens * 100)
                  IN  [text |-> ShortenToLimit(enc, Substring(t, estimatedChars), maxTokens),
                       marked |-> TRUE]

MaxContextTokens == 500

\* _buildMinimalContext: minimalContext.targetFile for a read or edit subtask
TargetFile(enc, t) ==
    IF CountTokens(enc, t, FALSE) > MaxContextTokens
    THEN [content |-> TruncateToTokenLimit(enc, t, MaxContextTokens), truncated |-> TRUE]
    ELSE [content |-> [text |-> t, marked |-> FALSE], truncated |-> FALSE]

MaxRun == 40
MaxRest == 2

DenseLengths == {0, 100, 499, 500, 1800}

FileContents == [dense : DenseLengths, run : 0..MaxRun, rest : 0..MaxRest]

TargetInit ==
    /\ brackets = <<>>
    /\ jpc = "off"
    /\ tokensA = {}
    /\ tokensB = {}
    /\ jaccard = NaN
    /\ tpc = "ready"
    /\ encoding \in BOOLEAN
    /\ fileContent \in FileContents
    /\ targetFile = NoTargetFile
    /\ WalkOff

\* the target file is read and placed in the minimal context
TargetFileBuilt ==
    /\ tpc = "ready"
    /\ targetFile' = TargetFile(encoding, fileContent)
    /\ tpc' = "done"
    /\ UNCHANGED <<brackets, jpc, tokensA, tokensB, jaccard, encoding, fileContent,
                   walkVars, valVars, kVars, decVars, cluVars, voteVars, execVars>>

(***************************************************************************)
(* ResponseValidator._checkBalancedBrackets on the characters of a text.   *)
(* A character is one of ( ) [ ] { } or "x", any other character.          *)
(***************************************************************************)
MaxChars == 3

Opening == {"(", "[", "{"}

Closing == {")", "]", "}"}

\* pairs[opener]
Pairs(opener) == IF opener = "(" THEN ")" ELSE IF opener = "[" THEN "]" ELSE "}"

\* the for loop over the characters, from the given stack on; the result is
\* brackets.balanced
RECURSIVE ScanBrackets(_, _)
ScanBrackets(chars, stack) ==
    IF chars = <<>> THEN Len(stack) = 0
    ELSE IF chars[1] \in Opening
         THEN ScanBrackets(Tail(chars), Append(stack, chars[1]))
         ELSE IF chars[1] \in Closing
              THEN IF stack = <<>> \/ Pairs(stack[Len(stack)]) # chars[1]
                   THEN FALSE
                   ELSE ScanBrackets(Tail(chars), SubSeq(stack, 1, Len(stack) - 1))
              ELSE ScanBrackets(Tail(chars), stack)

\* the bracket check counting openers against closers only
BalancedByCount(chars) ==
    Cardinality({i \in 1..Len(chars) : chars[i] \in Opening})
        = Cardinality({i \in 1..Len(chars) : chars[i] \in Closing})

\* _checkBalancedBrackets(code).balanced
BalancedBrackets(chars) == ScanBrackets(chars, <<>>)

BracketTexts == SeqsUpTo(Opening \cup Closing \cup {"x"}, MaxChars)

UnitOff ==
    /\ brackets = <<>>
    /\ jpc = "off"
    /\ tokensA = {}
    /\ tokensB = {}
    /\ jaccard = NaN
    /\ tpc = "off"
    /\ encoding = FALSE
    /\ fileContent = EmptyFile
    /\ targetFile = NoTargetFile
    /\ WalkOff

BracketInit ==
    /\ vpc = "ready"
    /\ code = BaseText
    /\ task \in {[type |-> None, expectedFormat |-> None, expectedLength |-> 0],
                 [type |-> "code", expectedFormat |-> None, expectedLength |-> 0]}
    /\ options = NoOptions
    /\ validation = None
    /\ brackets \in BracketTexts
    /\ jpc = "off"
    /\ tokensA = {}
    /\ tokensB = {}
    /\ jaccard = NaN
    /\ tpc = "off"
    /\ encoding = FALSE
    /\ fileContent = EmptyFile
    /\ targetFile = NoTargetFile
    /\ WalkOff

\* validate runs on a text with the given characters: code.balanced is what
\* _checkBalancedBrackets finds in them
BracketValidateCall ==
    /\ vpc = "ready"
    /\ LET c == [code EXCEPT !.balanced = BalancedBrackets(brackets)]
       IN  /\ code' = c
           /\ validation' = Validate(c, task, options)
    /\ vpc' = "done"
    /\ UNCHANGED <<task, options, brackets, jpc, tokensA, tokensB, jaccard,
                   tpc, encoding, fileContent, targetFile, walkVars,
                   kVars, decVars, cluVars, voteVars, execVars>>

(***************************************************************************)
(* CodeClusterer._jaccardSimilarity on two sets of tokens                  *)
(***************************************************************************)
MaxTokenIds == 3

JaccardInit ==
    /\ brackets = <<>>
    /\ jpc = "ready"
    /\ tokensA \in SUBSET (1..MaxTokenIds)
    /\ tokensB \in SUBSET (1..MaxTokenIds)
    /\ jaccard = NaN
    /\ tpc = "off"
    /\ encoding = FALSE
    /\ fileContent = EmptyFile
    /\ targetFile = NoTargetFile
    /\ WalkOff

JaccardCall ==
    /\ jpc = "ready"
    /\ jaccard' = JaccardSimilarity(tokensA, tokensB)
    /\ jpc' = "done"
    /\ UNCHANGED <<brackets, tokensA, tokensB, tpc, encoding, fileContent, targetFile,
                   walkVars, valVars, kVars, decVars, cluVars, voteVars, execVars>>

\* the depends lists a response may give step i of n, self-dependency included
GraphChoices(i, n) == DepChoices(i, n) \cup {<<i>>}

\* the subtasks normalization can hand to the sort
NormalizedSubtasks ==
    UNION {{ValidateSubtasks([i \in 1..n |-> Subtask(i, deps[i])]) :
              deps \in {g \in [1..n -> UNION {GraphChoices(i, n) : i \in 1..n}] :
                          \A i \in 1..n : g[i] \in GraphChoices(i, n)}} :
           n \in 0..MaxPlanSteps}

DependsOf(id) == walkSubtasks[FindTask(walkSubtasks, id)].depends

Pop(stack) == SubSeq(stack, 1, Len(stack) - 1)

Top(stack) == stack[Len(stack)]

\* the top frame replaced
SetTop(stack, frame) == [stack EXCEPT ![Len(stack)] = frame]

WalkOthers == <<brackets, jpc, tokensA, tokensB, jaccard, tpc, encoding, fileContent,
                targetFile, valVars, kVars, decVars, cluVars, voteVars, execVars>>

\* the loop over the keys calling visit without the visited test
SortNextRootAgain ==
    /\ wpc = "sorting"
    /\ sortRun.stack = <<>>
    /\ sortRun.roots # <<>>
    /\ LET r == sortRun.roots[1]
       IN  sortRun' = [sortRun EXCEPT !.roots = Tail(@),
                                      !.visited = @ \cup {r},
                                      !.stack = <<[node |-> r, deps |-> DependsOf(r)]>>]
    /\ UNCHANGED <<wpc, walkSubtasks, depthRun, WalkOthers>>

\* for (const nodeId of Object.keys(graph)) visit(nodeId): the next key
SortNextRoot ==
    /\ wpc = "sorting"
    /\ sortRun.stack = <<>>
    /\ sortRun.roots # <<>>
    /\ LET r == sortRun.roots[1]
       IN  sortRun' =
              IF r \in sortRun.visited
              THEN [sortRun EXCEPT !.roots = Tail(@)]
              ELSE [sortRun EXCEPT !.roots = Tail(@),
                                   !.visited = @ \cup {r},
                                   !.stack = <<[node |-> r, deps |-> DependsOf(r)]>>]
    /\ UNCHANGED <<wpc, walkSubtasks, depthRun, WalkOthers>>

\* for (const depId of node.dependsOn) visit(depId): the next dependency
SortDescend ==
    /\ wpc = "sorting"
    /\ sortRun.stack # <<>>
    /\ Top(sortRun.stack).deps # <<>>
    /\ LET f == Top(sortRun.stack)
           d == f.deps[1]
           rest == SetTop(sortRun.stack, [f EXCEPT !.deps = Tail(@)])
       IN  sortRun' =
              IF d \in sortRun.visited
              THEN [sortRun EXCEPT !.stack = rest]
              ELSE [sortRun EXCEPT
                      !.visited = @ \cup {d},
                      !.stack = IF FindTask(walkSubtasks, d) # 0
                                THEN Append(rest, [node |-> d, deps |-> DependsOf(d)])
                                ELSE rest]
    /\ UNCHANGED <<wpc, walkSubtasks, depthRun, WalkOthers>>

\* order.push(nodeId) and the return of visit
SortEmit ==
    /\ wpc = "sorting"
    /\ sortRun.stack # <<>>
    /\ Top(sortRun.stack).deps = <<>>
    /\ sortRun' = [sortRun EXCEPT !.order = Append(@, Top(sortRun.stack).node),
                                  !.stack = Pop(@)]
    /\ UNCHANGED <<wpc, walkSubtasks, depthRun, WalkOthers>>

\* return order; _estimateComplexity begins
SortReturns ==
    /\ wpc = "sorting"
    /\ sortRun.stack = <<>>
    /\ sortRun.roots = <<>>
    /\ wpc' = "measuring"
    /\ depthRun' = [maxDepth |-> 0, stack |-> <<>>,
                    tasks |-> [i \in 1..Len(walkSubtasks) |-> walkSubtasks[i].id]]
    /\ UNCHANGED <<walkSubtasks, sortRun, WalkOthers>>

\* calculateDepth(task with this id, visited) as far as its first recursive
\* call: the value it returns at once, or the frame it leaves pending
EnterDepth(id, visited) ==
    IF id \in visited THEN [returns |-> TRUE, value |-> 0]
    ELSE IF DependsOf(id) = <<>> THEN [returns |-> TRUE, value |-> 1]
    ELSE [returns |-> FALSE,
          frame |-> [id |-> id, visited |-> visited \cup {id},
                     deps |-> DependsOf(id), best |-> 0]]

\* for (const task of subtasks) calculateDepth(task): the next task
DepthNextTask ==
    /\ wpc = "measuring"
    /\ depthRun.stack = <<>>
    /\ depthRun.tasks # <<>>
    /\ LET call == EnterDepth(depthRun.tasks[1], {})
       IN  depthRun' =
              IF call.returns
              THEN [depthRun EXCEPT !.tasks = Tail(@),
                                    !.maxDepth = Max(@, call.value)]
              ELSE [depthRun EXCEPT !.tasks = Tail(@), !.stack = <<call.frame>>]
    /\ UNCHANGED <<wpc, walkSubtasks, sortRun, WalkOthers>>

\* task.depends.map(depId => calculateDepth(depTask, new Set(visited))):
\* the next dependency
DepthDescend ==
    /\ wpc = "measuring"
    /\ depthRun.stack # <<>>
    /\ Top(depthRun.stack).deps # <<>>
    /\ LET f == Top(depthRun.stack)
           d == f.deps[1]
           call == IF FindTask(walkSubtasks, d) # 0
                   THEN EnterDepth(d, f.visited)
                   ELSE [returns |-> TRUE, value |-> 0]
       IN  depthRun' =
              IF call.returns
              THEN [depthRun EXCEPT
                      !.stack = SetTop(@, [f EXCEPT !.deps = Tail(@),
                                                    !.best = Max(@, call.value)])]
              ELSE [depthRun EXCEPT
                      !.stack = Append(SetTop(@, [f EXCEPT !.deps = Tail(@)]),
                                       call.frame)]
    /\ UNCHANGED <<wpc, walkSubtasks, sortRun, WalkOthers>>

\* return 1 + Math.max(...depthsOfDeps)
DepthReturn ==
    /\ wpc = "measuring"
    /\ depthRun.stack # <<>>
    /\ Top(depthRun.stack).deps = <<>>
    /\ LET value == 1 + Top(depthRun.stack).best
           rest == Pop(depthRun.stack)
       IN  depthRun' =
              IF rest = <<>>
              THEN [depthRun EXCEPT !.stack = rest, !.maxDepth = Max(@, value)]
              ELSE [depthRun EXCEPT
                      !.stack = SetTop(rest, [Top(rest) EXCEPT !.best = Max(@, value)])]
    /\ UNCHANGED <<wpc, walkSubtasks, sortRun, WalkOthers>>

\* _estimateComplexity returns
ComplexityReturns ==
    /\ wpc = "measuring"
    /\ depthRun.stack = <<>>
    /\ depthRun.tasks = <<>>
    /\ wpc' = "done"
    /\ UNCHANGED <<walkSubtasks, sortRun, depthRun, WalkOthers>>

WalkInit ==
    /\ brackets = <<>>
    /\ jpc = "off"
    /\ tokensA = {}
    /\ tokensB = {}
    /\ jaccard = NaN
    /\ tpc = "off"
    /\ encoding = FALSE
    /\ fileContent = EmptyFile
    /\ targetFile = NoTargetFile
    /\ wpc = "sorting"
    /\ walkSubtasks \in NormalizedSubtasks
    /\ sortRun = [NoSortRun EXCEPT
                    !.roots = [i \in 1..Len(walkSubtasks) |-> i]]
    /\ depthRun = NoDepthRun

(***************************************************************************)
(* Specifications                                                          *)
(***************************************************************************)
InitValidate == ValInit /\ KOff /\ DecOff /\ CluOff /\ VoteOff /\ ExecOff /\ UnitOff

NextValidate == ValidateCall

SpecValidate == InitValidate /\ [][NextValidate]_vars

InitK == KInit /\ ValOff /\ DecOff /\ CluOff /\ VoteOff /\ ExecOff /\ UnitOff

NextK == KCall \/ KCallNext

SpecK == InitK /\ [][NextK]_vars

InitDecompose == DecInit /\ ValOff /\ KOff /\ CluOff /\ VoteOff /\ ExecOff /\ UnitOff

NextDecompose ==
    DecomposeWithRules \/ DecomposeAskAI \/ AIResponds \/ AIRespondsEmpty \/ AIFails

SpecDecompose == InitDecompose /\ [][NextDecompose]_vars

InitCluster == CluInit /\ ValOff /\ KOff /\ DecOff /\ VoteOff /\ ExecOff /\ UnitOff

NextCluster == ClusterCall

SpecCluster == InitCluster /\ [][NextCluster]_vars

InitVote == VoteInit /\ ValOff /\ KOff /\ DecOff /\ CluOff /\ ExecOff /\ UnitOff

NextVote ==
    \/ VoteCall
    \/ ProviderAnswers \/ ProviderAnswersNothing
    \/ VoteThrows \/ VoteReturnsLeastBad \/ VoteReturnsOnlyValid \/ VoteReturnsVoted

SpecVote == InitVote /\ [][NextVote]_vars

InitGenerate == VoteInitFaulty /\ ValOff /\ KOff /\ DecOff /\ CluOff /\ ExecOff /\ UnitOff

NextGenerate ==
    \/ VoteCall
    \/ ProviderAnswers \/ ProviderAnswersNothing \/ ProviderFails \/ ProviderConnectionFault
    \/ VoteThrows \/ VoteReturnsLeastBad \/ VoteReturnsOnlyValid \/ VoteReturnsVoted

SpecGenerate == InitGenerate /\ [][NextGenerate]_vars

\* votes in which every request is answered with a valid text
NextScenario == VoteCall \/ ProviderAnswers \/ VoteReturnsVoted

InitIdentical == VoteInitIdentical /\ ValOff /\ KOff /\ DecOff /\ CluOff /\ ExecOff /\ UnitOff

SpecIdentical == InitIdentical /\ [][NextScenario]_vars

InitDisjoint == VoteInitDisjoint /\ ValOff /\ KOff /\ DecOff /\ CluOff /\ ExecOff /\ UnitOff

SpecDisjoint == InitDisjoint /\ [][NextScenario]_vars

InitExecute == ExecInit /\ ValOff /\ KOff /\ DecOff /\ CluOff /\ VoteOff /\ UnitOff

NextExecute ==
    \/ ExecuteTaskCall \/ PlanArrives
    \/ VoteReliable \/ VoteUnreliable \/ VoteRaised

SpecExecute == InitExecute /\ [][NextExecute]_vars

InitOverlap == OverlapInit /\ ValOff /\ KOff /\ DecOff /\ CluOff /\ VoteOff /\ UnitOff

NextOverlap ==
    \E c \in Calls :
        \/ OverlapStart(c) \/ OverlapPlanArrives(c)
        \/ OverlapVoteReturns(c) \/ OverlapVoteRaised(c)

SpecOverlap == InitOverlap /\ [][NextOverlap]_vars

InitBrackets == BracketInit /\ KOff /\ DecOff /\ CluOff /\ VoteOff /\ ExecOff

NextBrackets == BracketValidateCall

SpecBrackets == InitBrackets /\ [][NextBrackets]_vars

InitJaccard == JaccardInit /\ ValOff /\ KOff /\ DecOff /\ CluOff /\ VoteOff /\ ExecOff

NextJaccard == JaccardCall

SpecJaccard == InitJaccard /\ [][NextJaccard]_vars

InitTarget == TargetInit /\ ValOff /\ KOff /\ DecOff /\ CluOff /\ VoteOff /\ ExecOff

NextTarget == TargetFileBuilt

SpecTarget == InitTarget /\ [][NextTarget]_vars

InitWalk == WalkInit /\ ValOff /\ KOff /\ DecOff /\ CluOff /\ VoteOff /\ ExecOff

NextWalk ==
    \/ SortNextRoot \/ SortDescend \/ SortEmit \/ SortReturns
    \/ DepthNextTask \/ DepthDescend \/ DepthReturn \/ ComplexityReturns

\* each call and return is taken once it can be: the code runs on
SpecWalk == InitWalk /\ [][NextWalk]_vars /\ WF_vars(NextWalk)

(***************************************************************************)
(* Claims                                                                  *)
(***************************************************************************)

\* C4: calculateOptimalK returns an integer in [2,10] for every steps >= 0
\* and every baseReliability in [0,1], and for a fixed baseReliability the
\* value for steps + 1 is never below the value for steps.
C4_OptimalKRangeMonotone ==
    kpc = "done" =>
        /\ optimalK \in 2..10
        /\ prevK # 0 => prevK <= optimalK

C4_Witness ==
    /\ kpc = "done"
    /\ prevK # 0
    /\ prevK < optimalK
    /\ optimalK = 10
    /\ baseRel > 0

\* C6: validate returns valid = true exactly when no accumulated flag is
\* critical, whatever the confidence; a response with only high, medium or
\* low flags is valid even at confidence 0.
C6_ValidIffNoCriticalFlag ==
    vpc = "done" =>
        validation.valid =
            (\A i \in 1..Len(validation.flags) :
                validation.flags[i].severity # "critical")

C6_Witness ==
    /\ vpc = "done"
    /\ validation.valid
    /\ validation.confidence = 0
    /\ Len(validation.flags) >= 4

\* C8: validate on an empty or whitespace-only text returns before any
\* other check runs: valid = false, confidence = 0 and exactly one flag,
\* the critical empty-response flag.
C8_EmptyTextShortCircuits ==
    (vpc = "done" /\ code.blank) =>
        /\ validation.valid = FALSE
        /\ validation.confidence = 0
        /\ validation.flags = <<Flag("empty_response", "critical")>>

C8_Witness ==
    /\ vpc = "done"
    /\ code.blank
    /\ code.ntokens < DefaultMinTokens
    /\ task.type = "code"
    /\ Len(validation.flags) = 1

\* the ids of a plan's subtasks
PlanIds(p) == {p.subtasks[i].id : i \in 1..Len(p.subtasks)}

\* executionOrder holds each subtask id exactly once
OrderHoldsEachOnce(p) ==
    /\ Len(p.executionOrder) = Len(p.subtasks)
    /\ {p.executionOrder[i] : i \in 1..Len(p.executionOrder)} = PlanIds(p)
    /\ \A i, j \in 1..Len(p.executionOrder) :
          p.executionOrder[i] = p.executionOrder[j] => i = j

\* every subtask comes after all the subtasks listed in its depends
DependenciesComeFirst(p) ==
    \A i \in 1..Len(p.subtasks) :
        \A j \in 1..Len(p.subtasks[i].depends) :
            \E a, b \in 1..Len(p.executionOrder) :
                /\ a < b
                /\ p.executionOrder[a] = p.subtasks[i].depends[j]
                /\ p.executionOrder[b] = p.subtasks[i].id

DependsEdges(p) ==
    UNION {{<<p.subtasks[i].id, p.subtasks[i].depends[j]>> :
              j \in 1..Len(p.subtasks[i].depends)} : i \in 1..Len(p.subtasks)}

RECURSIVE TransitiveClosure(_, _)
TransitiveClosure(R, n) ==
    IF n = 0 THEN R
    ELSE TransitiveClosure(
            R \cup {<<e[1], f[2]>> : <<e, f>> \in {ef \in R \X R : ef[1][2] = ef[2][1]}},
            n - 1)

\* no subtask depends, directly or through others, on itself
Acyclic(p) ==
    \A e \in TransitiveClosure(DependsEdges(p), Len(p.subtasks)) : e[1] # e[2]

\* C3: in every plan decompose returns the subtask ids are exactly 1..N in
\* output order, whatever step numbers the parsed response carried.
C3_IdsAreOneToN ==
    dpc = "done" => \A i \in 1..Len(plan.subtasks) : plan.subtasks[i].id = i

C3_Witness ==
    /\ dpc = "done"
    /\ aiResponse.outcome = "content"
    /\ Len(plan.subtasks) >= 2
    /\ \A i \in 1..Len(aiResponse.lines) :
          aiResponse.lines[i].kind = "step" /\ aiResponse.lines[i].num # i

RECURSIVE SumSizes(_)
SumSizes(cl) == IF cl = <<>> THEN 0 ELSE cl[1].size + SumSizes(Tail(cl))

\* the places (cluster, member) at which input index i appears
PlacesOf(cl, i) ==
    UNION {{<<c, m>> : m \in {k \in 1..Len(cl[c].members) : cl[c].members[k].index = i}} :
              c \in 1..Len(cl)}

IsPartition(cl, n) ==
    /\ \A i \in 0..(n - 1) : Cardinality(PlacesOf(cl, i)) = 1
    /\ \A c \in 1..Len(cl) :
          /\ cl[c].size = Len(cl[c].members)
          /\ \A m \in 1..Len(cl[c].members) : cl[c].members[m].index \in 0..(n - 1)
    /\ SumSizes(cl) = n

\* C2: for every list of responses and every threshold, the clusters returned
\* by cluster partition the input: each index 0..n-1 is a member of exactly
\* one cluster, each size is the number of members, the sizes sum to n
C2_ClustersPartitionResponses ==
    cpc = "done" => IsPartition(clusters, Len(responses))

\* C2 witness: four responses, two of which have NaN similarity to each other,
\* were split into several clusters of which one has several members
C2_Witness ==
    /\ cpc = "done"
    /\ Len(responses) = 4
    /\ Len(clusters) >= 2
    /\ clusters[1].size >= 2
    /\ \E i, j \in 1..4 : i # j /\ responses[i] = CodeEmptyClass /\ responses[j] = CodeEmptyClass

HasResult == votepc = "done"

Stats == voteResult.votingStats

HasClusters == "clusters" \in DOMAIN voteResult

\* cluster c has the most votes of cl
TopVoted(cl, c) == \A d \in 1..Len(cl) : cl[d].size <= cl[c].size

\* the votes of the best cluster other than c
RunnerUpVotes(cl, c) ==
    IF Len(cl) = 1 THEN 0
    ELSE LET others == {cl[d].size : d \in (1..Len(cl)) \ {c}}
         IN  CHOOSE v \in others : \A w \in others : w <= v

\* the threshold the caller passed, 3 by default
PassedK == IF voteOptions.k = 0 THEN 3 ELSE voteOptions.k

\* votingStats.margin >= k as JavaScript evaluates it: false without a margin
MarginReachesK == "margin" \in DOMAIN Stats /\ Stats.margin >= PassedK

\* the clusters of the valid candidates: the ones vote built, or what cluster
\* returns for the list vote did not cluster
VoteClusters ==
    IF HasClusters THEN voteResult.clusters
    ELSE CHOOSE cl \in Cluster(Contents(validCandidates), SimilarityThreshold) : TRUE

\* C1 as stated: for every call of vote that returns a result, whatever the
\* number of generated and valid candidates, the winner is the representative
\* of the cluster with the most votes and reliable is margin >= k
C1_WinnerIsTopClusterAlways ==
    HasResult =>
        /\ \E c \in 1..Len(VoteClusters) :
              TopVoted(VoteClusters, c) /\ voteResult.winner = VoteClusters[c].representative
        /\ Stats.reliable = MarginReachesK

\* C1 amended: with at least one valid candidate the winner is the
\* representative of the most-voted cluster of the valid candidates (with two
\* or more, margin is that cluster's votes minus the runner-up's); with none
\* it is the generated candidate of highest validator confidence; reliable is
\* true exactly when a margin is reported and margin >= k (default 3)
C1_WinnerIsTopClusterOfValid ==
    HasResult =>
        /\ Stats.votesNeeded = PassedK
        /\ Stats.reliable = MarginReachesK
        /\ ("margin" \in DOMAIN Stats) = (Len(validCandidates) >= 2)
        /\ Len(validCandidates) >= 1 =>
              \E c \in 1..Len(VoteClusters) :
                  /\ TopVoted(VoteClusters, c)
                  /\ voteResult.winner = VoteClusters[c].representative
                  /\ Len(validCandidates) >= 2 =>
                        Stats.margin = VoteClusters[c].size - RunnerUpVotes(VoteClusters, c)
        /\ Len(validCandidates) >= 2 =>
              voteResult.clusters \in Cluster(Contents(validCandidates), SimilarityThreshold)
        /\ Len(validCandidates) = 0 =>
              \E i \in 1..Len(candidates) :
                  /\ voteResult.winner = candidates[i].content
                  /\ \A j \in 1..Len(candidates) :
                        Validate(candidates[j].content, voteTask, NoOptions).confidence
                          <= Validate(candidates[i].content, voteTask, NoOptions).confidence

\* C1 witness: a vote over two clusters whose margin reaches k exactly
C1_Witness ==
    /\ HasResult
    /\ HasClusters
    /\ Len(voteResult.clusters) = 2
    /\ Stats.margin = PassedK
    /\ Stats.reliable

IsCritical(c) == HasCritical(Validate(c.content, voteTask, NoOptions).flags)

NonCritical == {i \in 1..Len(candidates) : ~IsCritical(candidates[i])}

\* C7: a candidate whose validation carries a critical flag is not passed to
\* clustering, is a member of no cluster and adds no vote: the clustered list
\* is exactly the candidates without critical flag, and the votes count them
C7_CriticalCandidatesExcluded ==
    HasResult =>
        /\ \A i \in 1..Len(candidates) :
              IsCritical(candidates[i]) =>
                  /\ \A j \in 1..Len(validCandidates) :
                        validCandidates[j].index # candidates[i].index
                  /\ HasClusters =>
                        \A c \in 1..Len(voteResult.clusters) :
                            \A m \in 1..Len(voteResult.clusters[c].members) :
                                voteResult.clusters[c].members[m].code # candidates[i].content
        /\ Len(validCandidates) = Cardinality(NonCritical)
        /\ HasClusters =>
              /\ IsPartition(voteResult.clusters, Len(validCandidates))
              /\ SumSizes(voteResult.clusters) = Cardinality(NonCritical)
              /\ Stats.winnerVotes + Stats.runnerUpVotes <= Cardinality(NonCritical)

\* C7 witness: a vote was held although one candidate hallucinated
C7_Witness ==
    /\ HasResult
    /\ HasClusters
    /\ \E i \in 1..Len(candidates) :
          candidates[i].content.halluc > 0 /\ IsCritical(candidates[i])

AllIdentical ==
    \A i, j \in 1..Len(validCandidates) :
        validCandidates[i].content = validCandidates[j].content

\* C9: n >= 2 valid candidates with the same text, whatever it declares, form
\* one cluster of size n: margin = n, reliable = (n >= k), and for n = 5,
\* k = 3 the confidence is above 0.9
C9_IdenticalCandidatesOneCluster ==
    (HasResult /\ Len(validCandidates) >= 2 /\ AllIdentical) =>
        /\ Stats.clusterCount = 1
        /\ voteResult.clusters[1].size = Len(validCandidates)
        /\ Stats.margin = Len(validCandidates)
        /\ Stats.reliable = (Len(validCandidates) >= PassedK)
        /\ (Len(validCandidates) = 5 /\ PassedK = 3) =>
              RGt(voteResult.confidence, Rat(9, 10))

TokensDisjoint(a, b) == a.tokens \cap b.tokens = {}

SameSignature(f, g) == f.params = g.params /\ f.async = g.async

\* some function of a has the signature of some function of b
MatchingFunction(a, b) ==
    \E i \in 1..Len(ExtractFeatures(a).functions) :
        \E j \in 1..Len(ExtractFeatures(b).functions) :
            SameSignature(ExtractFeatures(a).functions[i], ExtractFeatures(b).functions[j])

DeclaresFunction(a) == Len(ExtractFeatures(a).functions) > 0

\* a and b have a declaration of the same kind in common
SharesFeature(a, b) ==
    \/ MatchingFunction(a, b)
    \/ Len(ExtractFeatures(a).classes) > 0 /\ Len(ExtractFeatures(b).classes) > 0
    \/ \E i \in 1..Len(ExtractFeatures(a).imports) :
          \E j \in 1..Len(ExtractFeatures(b).imports) :
              ExtractFeatures(a).imports[i] = ExtractFeatures(b).imports[j]
    \/ ExtractFeatures(a).structure[4] > 0 /\ ExtractFeatures(b).structure[4] > 0
    \/ ExtractFeatures(a).structure[5] > 0 /\ ExtractFeatures(b).structure[5] > 0

ValidPairs ==
    {ij \in (1..Len(validCandidates)) \X (1..Len(validCandidates)) : ij[1] < ij[2]}

AllSingletons ==
    /\ Stats.clusterCount = Len(validCandidates)
    /\ \A c \in 1..Len(voteResult.clusters) : voteResult.clusters[c].size = 1
    /\ Stats.margin <= 1
    /\ PassedK >= 2 => ~Stats.reliable

\* C10 as stated: 5 valid candidates with pairwise disjoint token sets and no
\* shared structural feature each get a singleton cluster: 5 clusters, margin
\* at most 1, reliable = false for every k >= 2
C10_DisjointCandidatesSingletons ==
    (/\ HasResult
     /\ Len(validCandidates) = 5
     /\ \A ij \in ValidPairs :
           /\ TokensDisjoint(validCandidates[ij[1]].content, validCandidates[ij[2]].content)
           /\ ~SharesFeature(validCandidates[ij[1]].content, validCandidates[ij[2]].content))
    => AllSingletons

\* C10 amended: valid candidates (5, or any number from 2) with pairwise
\* disjoint non-empty token sets such that of every two at least one declares
\* a function and no function of one has the parameter count and async flag
\* of a function of the other each get a singleton cluster: as many clusters
\* as candidates, margin at most 1, reliable = false for every k >= 2
C10_DistinctSignaturesSingletons ==
    (/\ HasResult
     /\ Len(validCandidates) >= 2
     /\ \A i \in 1..Len(validCandidates) : validCandidates[i].content.tokens # {}
     /\ \A ij \in ValidPairs :
           /\ TokensDisjoint(validCandidates[ij[1]].content, validCandidates[ij[2]].content)
           /\ ~MatchingFunction(validCandidates[ij[1]].content, validCandidates[ij[2]].content)
           /\ \/ DeclaresFunction(validCandidates[ij[1]].content)
              \/ DeclaresFunction(validCandidates[ij[2]].content))
    => AllSingletons

\* C10 witness: 5 candidates, four with functions of different arity and one
\* without any function, ended in 5 clusters
C10_Witness ==
    /\ HasResult
    /\ Len(validCandidates) = 5
    /\ Stats.clusterCount = 5
    /\ \E i \in 1..5 : ~DeclaresFunction(validCandidates[i].content)
    /\ \A i \in 1..5 : validCandidates[i].content.tokens # {}
    /\ \A ij \in ValidPairs :
          ~MatchingFunction(validCandidates[ij[1]].content, validCandidates[ij[2]].content)

(***************************************************************************)
(* Properties of the rule-based and the AI-assisted decomposition          *)
(***************************************************************************)
\* decompose returned a plan built by _decomposeRuleBased
RuleBasedPlan == dpc = "done" /\ aiResponse.outcome # "content"

\* the number of statements the description splits into: its sentences, or
\* its parts between conjunctions when there is one sentence with a conjunction
Statements(d) == IF d.sentences = 1 /\ d.hasConj THEN d.parts ELSE d.sentences

\* C11: rule-based decomposition of a description that splits into N >= 1
\* statements yields exactly N subtasks in a linear chain: subtask 1 depends
\* on nothing, subtask i > 1 on exactly subtask i - 1
C11_RuleBasedLinearChain ==
    (RuleBasedPlan /\ Statements(description) >= 1) =>
        /\ Len(plan.subtasks) = Statements(description)
        /\ \A i \in 1..Len(plan.subtasks) :
              /\ plan.subtasks[i].id = i
              /\ plan.subtasks[i].depends = IF i = 1 THEN <<>> ELSE <<i - 1>>

\* C11 witness: "Write a function. Then write a test." (two sentences, a
\* conjunction between them) gave two subtasks
C11_Witness ==
    /\ RuleBasedPlan
    /\ description = [sentences |-> 2, hasConj |-> TRUE, parts |-> 2]
    /\ Len(plan.subtasks) = 2
    /\ plan.subtasks[2].depends = <<1>>

(***************************************************************************)
(* Properties of the failure paths of generateCandidates and vote          *)
(***************************************************************************)
ValidatorScore(c) == Validate(c.content, voteTask, NoOptions).confidence

\* vote has ended, by a return or by a throw
VoteEnded == votepc \in {"done", "failed"}

\* C12: when at least one candidate was generated and none is valid, vote
\* does not fail: it returns the content of a generated candidate of highest
\* validator confidence, with confidence 0.3, reliable = false,
\* validCandidates = 0 and a warning
C12_AllInvalidReturnsLeastBad ==
    (VoteEnded /\ Len(candidates) >= 1 /\ NonCritical = {}) =>
        /\ votepc = "done"
        /\ \E i \in 1..Len(candidates) :
              /\ voteResult.winner = candidates[i].content
              /\ \A j \in 1..Len(candidates) :
                    ValidatorScore(candidates[j]) <= ValidatorScore(candidates[i])
        /\ voteResult.confidence = Rat(3, 10)
        /\ Stats.reliable = FALSE
        /\ Stats.validCandidates = 0
        /\ voteResult.warning = "all_invalid"

\* C12 witness: three candidates, not all the same, all red-flagged
C12_Witness ==
    /\ votepc = "done"
    /\ Len(candidates) = 3
    /\ NonCritical = {}
    /\ candidates[1].content # candidates[2].content

\* the requests that produced a candidate
Answered == {i \in 1..Len(requests) : requests[i] = "content"}

\* C13: generateCandidates issues its count requests one after another; a
\* request that fails adds no candidate and does not keep the remaining
\* requests from being issued, the candidates are at most count, and vote
\* throws exactly when no request produced a candidate
C13_FailedRequestsAreSkipped ==
    votepc # "off" =>
        /\ Len(requests) = requested
        /\ requested <= EffectiveMaxCandidates
        /\ Len(candidates) = Cardinality(Answered)
        /\ Len(candidates) <= EffectiveMaxCandidates
        /\ \A j \in 1..Len(candidates) : candidates[j].index + 1 \in Answered
        /\ \A j \in 1..(Len(candidates) - 1) : candidates[j].index < candidates[j + 1].index
        /\ VoteEnded =>
              /\ requested = EffectiveMaxCandidates
              /\ (votepc = "failed") = (Len(candidates) = 0)

\* C13 witness: the first of three requests failed, the last one produced
\* the candidate vote returned
C13_Witness ==
    /\ votepc = "done"
    /\ Len(requests) = 3
    /\ requests[1] = "error"
    /\ requests[2] = "nothing"
    /\ requests[3] = "content"
    /\ Len(candidates) = 1

\* C14: a connection-level fault of the provider during candidate generation
\* propagates out of generateCandidates: no further request of the batch is
\* issued after it and vote returns no result
C14_ConnectionFaultAborts ==
    \A i \in 1..Len(requests) :
        requests[i] = "connection" => (i = Len(requests) /\ votepc # "done")

\* the provider's response was parsed and gave no subtask at all
ParsedToNothing ==
    aiResponse.outcome = "content" /\ Len(ParseDecompositionResponse(aiResponse.lines)) = 0

\* C15: when the provider call fails or its response parses to zero
\* subtasks, decompose falls back to the rule-based decomposition; hence
\* every plan decompose returns has at least one subtask
C15_FallbackGivesNonEmptyPlan ==
    dpc = "done" =>
        /\ (aiResponse.outcome = "failed" \/ ParsedToNothing) =>
              plan \in {MakePlan(DecomposeRuleBased(d)) : d \in Descriptions}
        /\ Len(plan.subtasks) >= 1

(***************************************************************************)
(* Properties of MicroagentExecutor.executeTask                            *)
(***************************************************************************)
\* the attempts whose voting round has ended
Resolved == 1..Len(voteOutcomes)

\* attempt i ended in an exception: vote threw, or the result was not
\* reliable and requireHighConfidence was set
Raised(i) ==
    \/ voteOutcomes[i] = "raised"
    \/ voteOutcomes[i] = "unreliable" /\ execOptions.requireHighConfidence

StatusOf(id) == currentPlan.subtasks[FindTask(currentPlan.subtasks, id)].status

\* how many times executeTask applied a result of subtask id
TimesApplied(id) ==
    Cardinality({i \in 1..Len(completedSubtasks) : completedSubtasks[i] = id})

TimesInResults(id) ==
    Cardinality({i \in 1..Len(results) : results[i].subtask = id})

IsPrefix(s, t) ==
    /\ Len(s) <= Len(t)
    /\ \A i \in 1..Len(s) : s[i] = t[i]

\* the subtasks of the plan all of whose dependencies have been attempted
DependenciesAttempted(i) ==
    \A d \in 1..Len(currentPlan.subtasks[i].depends) :
        \E a \in Resolved : attempted[a] = currentPlan.subtasks[i].depends[d]

\* C16: every subtask executeTask has attempted is completed in the plan,
\* whatever the attempt's outcome; after a run without abort every subtask
\* is completed, and a pending subtask whose dependencies have all been
\* attempted is reported ready by getReadySubtasks
C16_AttemptedSubtasksCompleted ==
    /\ \A a \in Resolved : StatusOf(attempted[a]) = "completed"
    /\ xpc = "done" =>
          \A i \in 1..Len(currentPlan.subtasks) :
              currentPlan.subtasks[i].status = "completed"
    /\ \A i \in 1..Len(currentPlan.subtasks) :
          (currentPlan.subtasks[i].status = "pending" /\ DependenciesAttempted(i))
              => i \in GetReadySubtasks(currentPlan.subtasks)

ErrorOf(i) == IF voteOutcomes[i] = "raised" THEN "no_candidates" ELSE "low_confidence"

\* C18: with stopOnError a subtask that raises aborts the execution:
\* executeTask fails with that error and no later subtask is voted on or
\* applied; without stopOnError the execution never aborts and ends with
\* every subtask of executionOrder attempted exactly once
C18_StopOnErrorDecidesAbort ==
    /\ execOptions.stopOnError =>
          /\ \A a \in Resolved :
                Raised(a) => /\ a = Len(attempted)
                             /\ xpc = "aborted"
                             /\ execError = ErrorOf(a)
                             /\ Len(completedSubtasks) = a - 1
          /\ xpc = "aborted" => Len(voteOutcomes) > 0 /\ Raised(Len(voteOutcomes))
    /\ ~execOptions.stopOnError =>
          /\ xpc # "aborted"
          /\ execError = "none"
          /\ xpc = "done" => attempted = currentPlan.executionOrder
    /\ \A a, b \in 1..Len(attempted) : attempted[a] = attempted[b] => a = b

\* an abort at the first of several subtasks
C18_Witness ==
    /\ xpc = "aborted"
    /\ Len(currentPlan.executionOrder) >= 2
    /\ Len(attempted) = 1
    /\ results = <<>>

\* the run has ended, normally or by abort
ExecEnded == xpc \in {"done", "aborted"}

\* the status the log owes attempt i
OwedStatus(i) ==
    IF Raised(i) THEN "error"
    ELSE IF voteOutcomes[i] = "reliable" THEN "success" ELSE "warning"

LogMatchesAttempts ==
    /\ Len(executionLog) = Len(attempted)
    /\ \A i \in 1..Len(executionLog) :
          /\ executionLog[i].taskId = attempted[i]
          /\ executionLog[i].status = OwedStatus(i)

OneAtATime ==
    /\ IsPrefix(attempted, currentPlan.executionOrder)
    /\ IF xpc = "voting"
       THEN /\ Len(attempted) = Len(voteOutcomes) + 1
            /\ pos = Len(attempted)
       ELSE Len(attempted) = Len(voteOutcomes)
    /\ Len(executionLog) = Len(voteOutcomes)
    /\ \A a \in Resolved :
          \/ executionLog[a].status = "error"
          \/ TimesApplied(attempted[a]) = 1

\* the tasks whose output the context under construction holds
InContext ==
    {minimalContext.dependencies[i].task : i \in 1..Len(minimalContext.dependencies)}

DirectDependencies == {Current.depends[d] : d \in 1..Len(Current.depends)}

\* the subtasks attempted before the current one whose result was applied
AppliedEarlier ==
    {attempted[a] : a \in {b \in Resolved : executionLog[b].status # "error"}}

\* C20 as stated: subtasks run one at a time in executionOrder, and the
\* context built for a subtask holds the output of every one of its direct
\* dependencies
C20_ContextHoldsEveryDependency ==
    /\ OneAtATime
    /\ xpc = "voting" =>
          /\ minimalContext.task = Current.id
          /\ DirectDependencies \subseteq InContext

\* C20 amended: subtasks run one at a time in executionOrder, and the
\* context built for a subtask holds the outputs of exactly those of its
\* direct dependencies that were attempted earlier and applied (success or
\* warning); a dependency that failed or that comes later in executionOrder
\* contributes nothing
C20_ContextHoldsAppliedDependencies ==
    /\ OneAtATime
    /\ xpc = "voting" =>
          /\ minimalContext.task = Current.id
          /\ InContext = DirectDependencies \cap AppliedEarlier
          /\ \A i \in 1..Len(minimalContext.dependencies) :
                minimalContext.dependencies[i].result = minimalContext.dependencies[i].task

\* the third subtask depends on the first, which failed, and on the second,
\* which was applied
C20_Witness ==
    /\ xpc = "voting"
    /\ pos = 3
    /\ DirectDependencies = {attempted[1], attempted[2]}
    /\ executionLog[1].status = "error"
    /\ executionLog[2].status = "success"
    /\ InContext = {attempted[2]}

(***************************************************************************)
(* Properties of overlapping executeTask calls                             *)
(***************************************************************************)
\* C21: when two executeTask calls on one executor overlap, each call looks
\* up, completes and logs only subtasks of its own plan, and the summary a
\* call returns holds exactly the log entries of its own subtasks, one per
\* subtask it attempted
C21_CallsKeepToOwnPlan ==
    \A c \in DOMAIN calls :
        /\ calls[c].pc = "voting" => calls[c].subtaskOf = c
        /\ \A i \in 1..Len(calls[c].results) : calls[c].results[i][1] = c
        /\ calls[c].pc = "done" =>
              /\ \A i \in 1..Len(calls[c].summary) : calls[c].summary[i].of = c
              /\ Len(calls[c].summary) = calls[c].completedCount + calls[c].errorCount

\* the results entry of subtask id, if it has been applied
ProducedBy(id) == {results[i].result : i \in {j \in 1..Len(results) : results[j].subtask = id}}

\* C22: the minimal context holds the output of a previously executed
\* subtask only when that subtask's id is in the current subtask's depends
\* list, and it holds at most the first two entries of the caller's
\* relevantFiles
C22_ContextOnlyDirectDependencies ==
    xpc = "voting" =>
        /\ \A i \in 1..Len(minimalContext.dependencies) :
              /\ minimalContext.dependencies[i].task \in DirectDependencies
              /\ minimalContext.dependencies[i].result
                    \in ProducedBy(minimalContext.dependencies[i].task)
        /\ Len(minimalContext.relevantFiles.files) <= 2
        /\ IsPrefix(minimalContext.relevantFiles.files, context.files)
        /\ Len(context.files) >= 2 => Len(minimalContext.relevantFiles.files) = 2

\* subtask 3 depends on 2, which depends on 1; all were applied, and the
\* caller gave three relevant files
C22_Witness ==
    /\ xpc = "voting"
    /\ pos = 3
    /\ Len(results) = 2
    /\ DirectDependencies = {attempted[2]}
    /\ currentPlan.subtasks[FindTask(currentPlan.subtasks, attempted[2])].depends
          = <<attempted[1]>>
    /\ InContext = {attempted[2]}
    /\ Len(context.files) = 3
    /\ minimalContext.relevantFiles.files = <<1, 2>>

(***************************************************************************)
(* Properties of TaskDecomposer._validateSubtasks and the complexity       *)
(***************************************************************************)
\* the subtasks as parsed from the provider's response, before normalization
ParsedSubtasks == ParseDecompositionResponse(aiResponse.lines)

\* the entries of a parsed depends list that name the original id of a
\* subtask other than the one holding the list
RealDependencies(raw, i) ==
    {j \in 1..Len(raw[i].depends) :
        /\ raw[i].depends[j] # raw[i].id
        /\ \E t \in 1..Len(raw) : raw[t].id = raw[i].depends[j]}

\* C23: after normalization every depends entry is the new id of an existing
\* subtask and not greater than the subtask's own id; entries that named no
\* original subtask id or that name the subtask itself are removed, so only
\* the entries naming another original subtask remain
C23_DependsPriorAndReal ==
    (dpc = "done" /\ aiResponse.outcome = "content") =>
        \A i \in 1..Len(plan.subtasks) :
            /\ \A j \in 1..Len(plan.subtasks[i].depends) :
                  /\ plan.subtasks[i].depends[j] \in PlanIds(plan)
                  /\ plan.subtasks[i].depends[j] <= plan.subtasks[i].id
                  /\ plan.subtasks[i].depends[j] # plan.subtasks[i].id
            /\ Len(plan.subtasks[i].depends)
                  = Cardinality(RealDependencies(ParsedSubtasks, i))

(***************************************************************************)
(* Properties of ResponseValidator._checkLength and the bracket check      *)
(***************************************************************************)
\* the severities of the flags of the given type in the validation result
SeveritiesOf(type) ==
    {validation.flags[i].severity :
        i \in {j \in 1..Len(validation.flags) : validation.flags[j].type = type}}

HardMax == OrDefault(options.maxTokens, DefaultMaxTokens)

HardMin == OrDefault(options.minTokens, DefaultMinTokens)

ExpectedLength == OrDefault(task.expectedLength, DefaultExpectedTokens)

\* C24: a response above the hard maximum of tokens gets a critical flag
\* and is invalid; one above twice the expected length but not above the
\* hard maximum gets a medium flag; one below the hard minimum gets a high
\* flag
C24_LengthFlagsBySeverity ==
    (vpc = "done" /\ ~code.blank) =>
        /\ code.ntokens > HardMax =>
              /\ SeveritiesOf("too_verbose") = {"critical"}
              /\ ~validation.valid
        /\ (code.ntokens <= HardMax /\ code.ntokens > 2 * ExpectedLength) =>
              SeveritiesOf("possibly_verbose") = {"medium"}
        /\ code.ntokens < HardMin => SeveritiesOf("too_short") = {"high"}

\* the characters of a text that are brackets, in order
RECURSIVE OnlyBrackets(_)
OnlyBrackets(chars) ==
    IF chars = <<>> THEN <<>>
    ELSE (IF chars[1] \in Opening \cup Closing THEN <<chars[1]>> ELSE <<>>)
         \o OnlyBrackets(Tail(chars))

\* a bracket sequence is properly nested when it is empty or becomes
\* properly nested by deleting some adjacent opener and its own closer
RECURSIVE ProperlyNested(_)
ProperlyNested(bs) ==
    \/ bs = <<>>
    \/ \E i \in 1..(Len(bs) - 1) :
          /\ bs[i] \in Opening
          /\ bs[i + 1] = Pairs(bs[i])
          /\ ProperlyNested(SubSeq(bs, 1, i - 1) \o SubSeq(bs, i + 2, Len(bs)))

UnbalancedFlags ==
    {i \in 1..Len(validation.flags) : validation.flags[i].type = "unbalanced_brackets"}

C26_JaccardSymmetricBounded ==
    jpc = "done" =>
        /\ jaccard = JaccardSimilarity(tokensB, tokensA)
        /\ ~IsNaN(jaccard)
        /\ RGe(jaccard, RInt(0))
        /\ RGe(RInt(1), jaccard)
        /\ (tokensA = tokensB /\ tokensA # {}) => jaccard = RInt(1)
        /\ (tokensA \cap tokensB = {} /\ tokensA # {} /\ tokensB # {}) => jaccard = RInt(0)

\* two sets of different size that overlap
C26_Witness ==
    /\ jpc = "done"
    /\ tokensA = {1, 2}
    /\ tokensB = {2}
    /\ jaccard = RDiv(RInt(1), RInt(2))

(***************************************************************************)
(* Properties of the target file in the minimal context                    *)
(***************************************************************************)
\* C27: a target content above the 500-token budget is placed in the
\* minimal context marked truncated and counting at most 500 tokens; a
\* content within the budget is placed unchanged and marked not truncated
C27_TargetFileWithinBudget ==
    tpc = "done" =>
        IF CountTokens(encoding, fileContent, FALSE) > MaxContextTokens
        THEN /\ targetFile.truncated
             /\ CountTokens(encoding, targetFile.content.text, targetFile.content.marked)
                   <= MaxContextTokens
        ELSE targetFile = [content |-> [text |-> fileContent, marked |-> FALSE],
                           truncated |-> FALSE]

(***************************************************************************)
(* Properties of _topologicalSort and calculateDepth, call by call         *)
(***************************************************************************)
WalkedPlan == [subtasks |-> walkSubtasks, executionOrder |-> sortRun.order]

\* C28: on every dependency graph normalization can produce, cycles and
\* self-dependencies included, the topological sort and the max-depth
\* computation both come to their end, and the sort has then emitted every
\* subtask id exactly once
C28_SortAndDepthTerminate ==
    /\ <>(wpc = "done")
    /\ [](wpc \in {"measuring", "done"} =>
            /\ OrderHoldsEachOnce(WalkedPlan)
            /\ sortRun.order = TopologicalSort(BuildDependencyGraph(walkSubtasks)))
    /\ [](wpc = "done" =>
            depthRun.maxDepth = EstimateComplexity(walkSubtasks).maxDepth)

\* both computations ended on a graph with a cycle through all three subtasks
C28_Witness ==
    /\ wpc = "done"
    /\ Len(walkSubtasks) = 3
    /\ ~Acyclic(WalkedPlan)
    /\ walkSubtasks[1].depends = <<2>>
    /\ walkSubtasks[2].depends = <<3>>
    /\ walkSubtasks[3].depends = <<1, 2>>
    /\ depthRun.maxDepth = 3

(***************************************************************************)
(* Bounds on the statistics of a reliable vote                             *)
(***************************************************************************)
\* the candidate limit the caller passed, 10 by default
PassedMaxCandidates == IF voteOptions.maxCandidates = 0 THEN 10 ELSE voteOptions.maxCandidates

\* the orchestrator's candidate limit when the caller gives none
OrchestratorCandidates == 5

\* C29: in every vote result with reliable = true, winnerVotes >= k,
\* validCandidates >= max(2, k), 0 <= runnerUpVotes <= winnerVotes and
\* winnerVotes + runnerUpVotes <= validCandidates <= totalCandidates <=
\* maxCandidates; so a vote with maxCandidates < k is never reliable, as
\* with the orchestrator's 5 candidates on a plan of 32 steps at a base
\* reliability of one half or more, where k is 6 or more
C29_ReliableVoteBounds ==
    /\ (HasResult /\ Stats.reliable) =>
          /\ Stats.winnerVotes >= PassedK
          /\ Stats.validCandidates >= Max(2, PassedK)
          /\ 0 <= Stats.runnerUpVotes
          /\ Stats.runnerUpVotes <= Stats.winnerVotes
          /\ Stats.winnerVotes + Stats.runnerUpVotes <= Stats.validCandidates
          /\ Stats.validCandidates <= Stats.totalCandidates
          /\ Stats.totalCandidates <= PassedMaxCandidates
    /\ (HasResult /\ PassedMaxCandidates < PassedK) => ~Stats.reliable
    /\ \A relNum \in 0..RelDen :
          2 * (RelDen - relNum) <= RelDen =>
              CalculateOptimalK(32, relNum) > OrchestratorCandidates

\* a reliable vote that used every candidate it was allowed
C29_Witness ==
    /\ HasResult
    /\ Stats.reliable
    /\ PassedK = 3
    /\ Stats.winnerVotes = 3
    /\ Stats.totalCandidates = PassedMaxCandidates

(***************************************************************************)
(* The validator confidence of rejected candidates                         *)
(***************************************************************************)
\* the deduction validate computes for a candidate, before the clamp at 0
Deducted(c) == SumPenalty(Validate(c.content, voteTask, NoOptions).flags)

\* C30: every validation result with valid = false has confidence exactly
\* 0, so when no candidate is valid all candidates tie on validator
\* confidence and the winner vote returns is the first candidate generated
C30_InvalidScoresZeroFirstWins ==
    /\ \A i \in 1..Len(candidates) :
          ~Validate(candidates[i].content, voteTask, NoOptions).valid =>
              ValidatorScore(candidates[i]) = 0
    /\ (VoteEnded /\ Len(candidates) >= 1 /\ NonCritical = {}) =>
          /\ \A i, j \in 1..Len(candidates) :
                ValidatorScore(candidates[i]) = ValidatorScore(candidates[j])
          /\ voteResult.winner = candidates[1].content

\* C30 witness: a later candidate with a smaller deduction than the first
\* one, both rejected, and the first one returned
C30_Witness ==
    /\ votepc = "done"
    /\ Len(candidates) >= 2
    /\ NonCritical = {}
    /\ Deducted(candidates[2]) < Deducted(candidates[1])
    /\ voteResult.winner = candidates[1].content
    /\ voteResult.winner # candidates[2].content

=============================================================================
